---- MODULE Spec2Model ----
(***************************************************************************)
(* A model of the OpenAI-family provider adapter of the CLI:               *)
(*   - the streaming tool-call accumulator (OpenAIAdapter.parseStream-     *)
(*     Response and convertStreamChunkToGeminiFormat),                     *)
(*   - the outbound message translation (convertContentsToMessages),       *)
(*   - the outbound tool-declaration translation                           *)
(*     (convertGeminiToolsToOpenAI),                                       *)
(*   - the layered configuration of BaseAdapter (deepMerge,                *)
(*     getModelConfig, getConfigValue, getRequestHeaders,                  *)
(*     extractTokenUsage),                                                 *)
(*   - the network operations of OpenAIAdapter (generateContent,           *)
(*     generateContentStream, countTokens, embedContent).                  *)
(* Strings of the program are TLA+ strings; a JavaScript value that may be *)
(* undefined is the string Undefined when it is a string and the empty     *)
(* sequence when it is a number (<<n>> when present).                      *)
(***************************************************************************)
EXTENDS Integers, Sequences, FiniteSets, TLC

VARIABLES
  streamingToolCalls, \* adapter -> the Map of the instance, in insertion order
  owner,              \* stream -> the adapter instance whose generator it is
  pc,                 \* stream -> position of the generator
  received,           \* stream -> the lines the generator has taken from the body
  yielded,            \* stream -> the canonical chunks handed to the consumer
  log,                \* adapter -> what was done to its accumulator, in order
  contents,           \* the contents handed to convertContentsToMessages
  messages,           \* the wire messages it returned
  origin,             \* for each wire message, the content it was pushed for
  msgPc,              \* "idle", "called" or "returned"
  geminiTools,        \* the tools handed to convertGeminiToolsToOpenAI
  openAITools,        \* the wire tools it returned
  toolPc,             \* "idle", "called" or "returned"
  userConfig,         \* BaseAdapter.userConfig, the user's provider record
  adapterConfig,      \* BaseAdapter.adapterConfig, the adapter descriptor
  env,                \* process.env
  cfgCall,            \* the BaseAdapter method called, with its arguments
  cfgResult,          \* what it returned
  warnings,           \* what it wrote to the console
  cfgPc,              \* "idle", "called" or "returned"
  httpCall,           \* the network operation called, with its request
  fetches,            \* the HTTP requests issued for it, in order
  attempts,           \* the try blocks it has entered
  httpResult,         \* what it returned or threw
  httpPc              \* "idle", "called", "fetching", "streaming", "returned", "thrown"

streamVars == <<streamingToolCalls, owner, pc, received, yielded, log>>
msgVars == <<contents, messages, origin, msgPc>>
toolVars == <<geminiTools, openAITools, toolPc>>
adapterVars == <<userConfig, adapterConfig, env>>
cfgVars == <<cfgCall, cfgResult, warnings, cfgPc>>
httpVars == <<httpCall, fetches, attempts, httpResult, httpPc>>
vars == <<streamVars, msgVars, toolVars, adapterVars, cfgVars, httpVars>>

----------------------------------------------------------------------------
(* Bounds of the model                                                     *)

MaxLines == 3       \* lines one stream delivers at most (single-stream runs)
MaxConcLines == 2   \* lines each stream delivers at most (interleaved runs)
MaxContents == 2    \* contents of one conversation at most
MaxParts == 3       \* parts of one conversation at most, over all its contents
MaxTools == 2       \* tools of one request at most
MaxDecls == 1       \* function declarations of one tool at most
MaxReads == 3       \* results of reader.read() that deliver one body at most

Adapters == {"a1", "a2"}
Streams == {"s1", "s2"}
SoloStreams == {"s1"}

----------------------------------------------------------------------------
(* JavaScript values                                                       *)

Undefined == "<undefined>"

\* JS truthiness of a string-or-undefined value: undefined and '' are falsy.
Truthy(v) == v # Undefined /\ v # ""

\* JSON objects are sets of <<key, value>> pairs.
EmptyObject == {}
CmdLs == {<<"cmd", "ls">>}

Frag1 == "{\"cmd\":"
Frag2 == "\"ls\"}"

\* JSON.parse on the argument strings the model's streams can build: the two
\* texts that are JSON documents parse, every other text throws.
JSONParses(s) == s \in {"{}", Frag1 \o Frag2}
JSONParse(s) == IF s = "{}" THEN EmptyObject ELSE CmdLs

----------------------------------------------------------------------------
(* Wire chunks (the parsed payload of a data line)                         *)

Delta(index, id, name, arguments) ==
  [index |-> index, id |-> id, name |-> name, arguments |-> arguments]

\* hasChoice: chunk.choices?.[0] is present.
Chunk(content, tool_calls, finish_reason) ==
  [hasChoice |-> TRUE, content |-> content, tool_calls |-> tool_calls,
   finish_reason |-> finish_reason]

NoChoiceChunk ==
  [hasChoice |-> FALSE, content |-> Undefined, tool_calls |-> <<>>,
   finish_reason |-> Undefined]

DataLine(chunk) == [kind |-> "data", chunk |-> chunk]
MalformedLine == [kind |-> "malformed", chunk |-> NoChoiceChunk]
BlankLine == [kind |-> "blank", chunk |-> NoChoiceChunk]
\* The sentinel line 'data: [DONE]'.
DoneLine == [kind |-> "done", chunk |-> NoChoiceChunk]

----------------------------------------------------------------------------
(* convertFinishReason                                                     *)

\* convertFinishReason without the case 'tool_calls'.
convertFinishReasonNoToolCalls(finishReason) ==
  CASE finishReason = "stop" -> "STOP"
    [] finishReason = "length" -> "MAX_TOKENS"
    [] finishReason = "content_filter" -> "SAFETY"
    [] OTHER -> "OTHER"

convertFinishReason(finishReason) ==
  CASE finishReason = "stop" -> "STOP"
    [] finishReason = "length" -> "MAX_TOKENS"
    [] finishReason = "content_filter" -> "SAFETY"
    [] finishReason = "tool_calls" -> "STOP"
    [] OTHER -> "OTHER"

----------------------------------------------------------------------------
(* convertStreamChunkToGeminiFormat                                        *)

TextPart(t) == [kind |-> "text", text |-> t]
FunctionCallPart(id, name, args) ==
  [kind |-> "functionCall", id |-> id, name |-> name, args |-> args]

\* toolCall.index ?? 0
IndexOf(toolCall) == IF toolCall.index = <<>> THEN 0 ELSE toolCall.index[1]

\* Map.get: the position of the entry of key index, 0 when there is none.
MapPos(acc, index) ==
  IF \E k \in 1..Len(acc) : acc[k].index = index
  THEN CHOOSE k \in 1..Len(acc) : acc[k].index = index
  ELSE 0

\* UpdateCall with the fragment assigned instead of appended.
UpdateCallReplace(call, toolCall) ==
  [index |-> call.index,
   id |-> IF Truthy(toolCall.id) THEN toolCall.id ELSE call.id,
   name |-> IF Truthy(toolCall.name) THEN toolCall.name ELSE call.name,
   arguments |-> IF Truthy(toolCall.arguments)
                 THEN toolCall.arguments
                 ELSE call.arguments]

\* The update of one accumulated call by one tool_calls delta.
UpdateCall(call, toolCall) ==
  [index |-> call.index,
   id |-> IF Truthy(toolCall.id) THEN toolCall.id ELSE call.id,
   name |-> IF Truthy(toolCall.name) THEN toolCall.name ELSE call.name,
   arguments |-> IF Truthy(toolCall.arguments)
                 THEN call.arguments \o toolCall.arguments
                 ELSE call.arguments]

NewCall(index) ==
  [index |-> index, id |-> Undefined, name |-> Undefined, arguments |-> ""]

\* One iteration of the loop over choice.delta.tool_calls.
AccumulateDelta(acc, toolCall) ==
  LET index == IndexOf(toolCall)
      k == MapPos(acc, index)
  IN IF k = 0
     THEN Append(acc, UpdateCall(NewCall(index), toolCall))
     ELSE [acc EXCEPT ![k] = UpdateCall(acc[k], toolCall)]

RECURSIVE AccumulateAll(_, _)
AccumulateAll(acc, toolCalls) ==
  IF toolCalls = <<>> THEN acc
  ELSE AccumulateAll(AccumulateDelta(acc, Head(toolCalls)), Tail(toolCalls))

\* CallPartOf with JSON.parse outside a try: what does not parse is taken
\* for whatever the parser makes of it.
CallPartOfUnchecked(call) ==
  FunctionCallPart(call.id, call.name, JSONParse(call.arguments))

\* The functionCall part of one accumulated call.
CallPartOf(call) ==
  FunctionCallPart(call.id, call.name,
    IF call.arguments # "" /\ JSONParses(call.arguments)
    THEN JSONParse(call.arguments)
    ELSE EmptyObject)

\* EmitCalls without the test of the name.
RECURSIVE EmitCallsUnnamed(_)
EmitCallsUnnamed(acc) ==
  IF acc = <<>> THEN <<>>
  ELSE <<CallPartOf(Head(acc))>> \o EmitCallsUnnamed(Tail(acc))

\* The loop over the Map on finish: one part per call that has a name.
RECURSIVE EmitCalls(_)
EmitCalls(acc) ==
  IF acc = <<>> THEN <<>>
  ELSE (IF Truthy(Head(acc).name) THEN <<CallPartOf(Head(acc))>> ELSE <<>>)
       \o EmitCalls(Tail(acc))

\* The accumulator after the deltas of the chunk and before the finish test.
Accumulated(acc, chunk) ==
  IF chunk.hasChoice THEN AccumulateAll(acc, chunk.tool_calls) ELSE acc

\* ChunkParts with the calls emitted on every chunk, finished or not.
ChunkPartsEager(acc, chunk) ==
  IF ~chunk.hasChoice THEN <<>>
  ELSE (IF Truthy(chunk.content) THEN <<TextPart(chunk.content)>> ELSE <<>>)
       \o EmitCalls(Accumulated(acc, chunk))

\* ChunkParts with the text pushed after the calls.
ChunkPartsCallsFirst(acc, chunk) ==
  IF ~chunk.hasChoice THEN <<>>
  ELSE (IF Truthy(chunk.finish_reason)
        THEN EmitCalls(Accumulated(acc, chunk))
        ELSE <<>>)
       \o (IF Truthy(chunk.content) THEN <<TextPart(chunk.content)>> ELSE <<>>)

\* The parts of the canonical chunk.
ChunkParts(acc, chunk) ==
  IF ~chunk.hasChoice THEN <<>>
  ELSE (IF Truthy(chunk.content) THEN <<TextPart(chunk.content)>> ELSE <<>>)
       \o (IF Truthy(chunk.finish_reason)
           THEN EmitCalls(Accumulated(acc, chunk))
           ELSE <<>>)

\* ChunkAccumulator without the clear() on finish.
ChunkAccumulatorKeep(acc, chunk) == Accumulated(acc, chunk)

\* The Map after the chunk.
ChunkAccumulator(acc, chunk) ==
  IF chunk.hasChoice /\ Truthy(chunk.finish_reason)
  THEN <<>>
  ELSE Accumulated(acc, chunk)

\* ChunkFinishReason that leaves the finish reason of every chunk unset.
ChunkFinishReasonUnspecified(chunk) == "FINISH_REASON_UNSPECIFIED"

ChunkFinishReason(chunk) ==
  IF chunk.hasChoice /\ Truthy(chunk.finish_reason)
  THEN convertFinishReason(chunk.finish_reason)
  ELSE "FINISH_REASON_UNSPECIFIED"

----------------------------------------------------------------------------
(* The lines a body delivers                                               *)

Lines ==
  { DataLine(Chunk("hi", <<>>, Undefined)),
    DataLine(Chunk(Undefined, <<Delta(<<0>>, "t1", "runShell", Frag1)>>, Undefined)),
    DataLine(Chunk(Undefined, <<Delta(<<>>, Undefined, Undefined, Frag2)>>, Undefined)),
    DataLine(Chunk(Undefined, <<Delta(<<0>>, "", "", Frag2)>>, Undefined)),
    DataLine(Chunk(Undefined, <<Delta(<<1>>, "t2", "readFile", "{}")>>, Undefined)),
    DataLine(Chunk(Undefined, <<Delta(<<1>>, Undefined, Undefined, "{}")>>, Undefined)),
    DataLine(Chunk(Undefined, <<Delta(<<0>>, "t2", "readFile", Undefined)>>, Undefined)),
    DataLine(Chunk(Undefined, <<Delta(<<1>>, "t2", "readFile", "{}"),
                                Delta(<<0>>, "t1", "runShell", "{}")>>, Undefined)),
    DataLine(Chunk(Undefined, <<>>, "tool_calls")),
    DataLine(Chunk("hi", <<>>, "stop")),
    DataLine(Chunk("hi", <<Delta(<<0>>, "t1", "runShell", Frag1 \o Frag2)>>, "tool_calls")),
    DataLine(NoChoiceChunk),
    MalformedLine,
    BlankLine }

ConcLines ==
  { DataLine(Chunk(Undefined, <<Delta(<<0>>, "t1", "runShell", "{}")>>, Undefined)),
    DataLine(Chunk(Undefined, <<Delta(<<0>>, "t2", "readFile", Frag1 \o Frag2)>>, Undefined)),
    DataLine(Chunk(Undefined, <<>>, "tool_calls")) }

----------------------------------------------------------------------------
(* The adapter descriptor and the user's provider record                   *)

\* Values of configuration objects (parsed JSON).
CfgNum(n) == [t |-> "number", n |-> n]
CfgStr(s) == [t |-> "string", s |-> s]
CfgBool(b) == [t |-> "boolean", b |-> b]
CfgNull == [t |-> "null"]
CfgUndefined == [t |-> "undefined"]
CfgArray(a) == [t |-> "array", a |-> a]
CfgObject(o) == [t |-> "object", o |-> o]   \* o: own keys -> values
NoKeys == [k \in {} |-> CfgUndefined]

\* !!v
CfgTruthy(v) ==
  CASE v.t = "number" -> v.n # 0
    [] v.t = "string" -> v.s # ""
    [] v.t = "boolean" -> v.b
    [] v.t \in {"null", "undefined"} -> FALSE
    [] OTHER -> TRUE

\* obj[key] of an object value: undefined for a key it does not own.
Get(obj, key) == IF key \in DOMAIN obj.o THEN obj.o[key] ELSE CfgUndefined

\* AdapterConfig: the fields the adapter reads.
AdapterConfig(defaultModels, usage, method, required, endpoints) ==
  [defaultModels |-> defaultModels, usage |-> usage, method |-> method,
   required |-> required, endpoints |-> endpoints,
   errorHandling |-> [rateLimitStatus |-> 429, authErrorStatus |-> 401,
                      quotaErrorStatus |-> 429, errorMessagePath |-> "error.message"]]

UsagePaths(promptTokens, completionTokens, totalTokens) ==
  [promptTokens |-> promptTokens, completionTokens |-> completionTokens,
   totalTokens |-> totalTokens]

Header(key, value) == [key |-> key, value |-> value]

\* UserProviderConfig: apiKey, models, modelOverrides, providerOverrides, and
\* the further top-level fields of the record (top: key -> value).
UserProviderConfig(apiKey, models, modelOverrides, providerOverrides, top) ==
  [apiKey |-> apiKey, models |-> models, modelOverrides |-> modelOverrides,
   providerOverrides |-> providerOverrides, top |-> top]

\* A model entry of defaultModels.
ModelConfig(contextWindow, modalities, features) ==
  CfgObject([k \in {"displayName", "contextWindow", "maxOutputTokens",
                    "supportedModalities", "features"} |->
     CASE k = "displayName" -> CfgStr("Test Model")
       [] k = "contextWindow" -> CfgNum(contextWindow)
       [] k = "maxOutputTokens" -> CfgNum(2048)
       [] k = "supportedModalities" -> CfgArray(modalities)
       [] OTHER -> CfgObject(features)])

Features(streaming, functionCalling, vision) ==
  [k \in {"streaming", "functionCalling", "vision"} |->
     CASE k = "streaming" -> CfgBool(streaming)
       [] k = "functionCalling" -> CfgBool(functionCalling)
       [] OTHER -> CfgBool(vision)]

TestModel == ModelConfig(4096, <<"text">>, Features(TRUE, FALSE, FALSE))

OpenAIUsagePaths ==
  UsagePaths("usage.prompt_tokens", "usage.completion_tokens", "usage.total_tokens")

OpenAIEndpoints == [k \in {"chat", "embedding"} |->
                     IF k = "chat" THEN "/chat/completions" ELSE "/embeddings"]

OpenAIDescriptor ==
  AdapterConfig([m \in {"m1"} |-> TestModel], OpenAIUsagePaths, "response_usage",
                <<Header("Authorization", "Bearer {apiKey}")>>, OpenAIEndpoints)

PlainUserConfig ==
  UserProviderConfig("sk-plain", <<"m1">>, CfgUndefined, CfgUndefined, NoKeys)

NoEnv == [k \in {} |-> ""]

----------------------------------------------------------------------------
(* parseStreamResponse                                                     *)

ClearEvent(s) == [op |-> "clear", stream |-> s, chunk |-> NoChoiceChunk, parts |-> <<>>]
ChunkEvent(s, chunk, parts) == [op |-> "chunk", stream |-> s, chunk |-> chunk, parts |-> parts]

Response(line, parts, finishReason) ==
  [line |-> line, parts |-> parts, finishReason |-> finishReason]

InitStreams ==
  /\ streamingToolCalls = [a \in Adapters |-> <<>>]
  /\ pc = [s \in Streams |-> "created"]
  /\ received = [s \in Streams |-> <<>>]
  /\ yielded = [s \in Streams |-> <<>>]
  /\ log = [a \in Adapters |-> <<>>]

\* No request is being translated.
InitNoMessages ==
  /\ contents = <<>>
  /\ messages = <<>>
  /\ origin = <<>>
  /\ msgPc = "idle"

InitNoTools ==
  /\ geminiTools = <<>>
  /\ openAITools = <<>>
  /\ toolPc = "idle"

\* No method of the configuration layer is being called.
InitNoConfigCall ==
  /\ cfgCall = <<>>
  /\ cfgResult = <<>>
  /\ warnings = <<>>
  /\ cfgPc = "idle"

\* No network operation is being called.
InitNoHttp ==
  /\ httpCall = <<>>
  /\ fetches = <<>>
  /\ attempts = 0
  /\ httpResult = <<>>
  /\ httpPc = "idle"

\* The adapter of the built-in descriptor and a plain provider record.
InitAdapter ==
  /\ userConfig = PlainUserConfig
  /\ adapterConfig = OpenAIDescriptor
  /\ env = NoEnv

\* One generateContentStream call on one adapter instance.
Init ==
  /\ InitStreams
  /\ owner = [s \in Streams |-> "a1"]
  /\ InitNoMessages
  /\ InitNoTools
  /\ InitAdapter
  /\ InitNoConfigCall
  /\ InitNoHttp

\* Two generateContentStream calls, on one adapter instance or on two.
InitConc ==
  /\ InitStreams
  /\ owner \in {o \in [Streams -> Adapters] : o["s1"] = "a1"}
  /\ InitNoMessages
  /\ InitNoTools
  /\ InitAdapter
  /\ InitNoConfigCall
  /\ InitNoHttp

\* The first next(): the generator body runs up to its first read and resets
\* the accumulator of its adapter on the way.
StreamStart(s) ==
  /\ pc[s] = "created"
  /\ pc' = [pc EXCEPT ![s] = "running"]
  /\ streamingToolCalls' = [streamingToolCalls EXCEPT ![owner[s]] = <<>>]
  /\ log' = [log EXCEPT ![owner[s]] = Append(@, ClearEvent(s))]
  /\ UNCHANGED <<owner, received, yielded, msgVars, toolVars, adapterVars, cfgVars, httpVars>>

\* StreamChunk that yields a chunk only if it has parts.
StreamChunkOmittingEmpty(s, line, max) ==
  /\ pc[s] = "running"
  /\ Len(received[s]) < max
  /\ line.kind = "data"
  /\ LET a == owner[s]
         acc == streamingToolCalls[a]
         parts == ChunkParts(acc, line.chunk)
     IN /\ streamingToolCalls' =
             [streamingToolCalls EXCEPT ![a] = ChunkAccumulator(acc, line.chunk)]
        /\ yielded' = IF parts = <<>> THEN yielded
                      ELSE [yielded EXCEPT ![s] =
                              Append(@, Response(Len(received[s]) + 1, parts,
                                                 ChunkFinishReason(line.chunk)))]
        /\ log' = [log EXCEPT ![a] = Append(@, ChunkEvent(s, line.chunk, parts))]
  /\ received' = [received EXCEPT ![s] = Append(@, line)]
  /\ UNCHANGED <<owner, pc, msgVars, toolVars, adapterVars, cfgVars, httpVars>>

\* A data line with a JSON payload: converted and yielded.
StreamChunk(s, line, max) ==
  /\ pc[s] = "running"
  /\ Len(received[s]) < max
  /\ line.kind = "data"
  /\ LET a == owner[s]
         acc == streamingToolCalls[a]
         parts == ChunkParts(acc, line.chunk)
     IN /\ streamingToolCalls' =
             [streamingToolCalls EXCEPT ![a] = ChunkAccumulator(acc, line.chunk)]
        /\ yielded' = [yielded EXCEPT ![s] =
             Append(@, Response(Len(received[s]) + 1, parts,
                                ChunkFinishReason(line.chunk)))]
        /\ log' = [log EXCEPT ![a] = Append(@, ChunkEvent(s, line.chunk, parts))]
  /\ received' = [received EXCEPT ![s] = Append(@, line)]
  /\ UNCHANGED <<owner, pc, msgVars, toolVars, adapterVars, cfgVars, httpVars>>

\* StreamSkip that starts the accumulation afresh after a line it skips.
StreamSkipClearing(s, line, max) ==
  /\ pc[s] = "running"
  /\ Len(received[s]) < max
  /\ line.kind \in {"malformed", "blank"}
  /\ received' = [received EXCEPT ![s] = Append(@, line)]
  /\ streamingToolCalls' = [streamingToolCalls EXCEPT ![owner[s]] = <<>>]
  /\ UNCHANGED <<owner, pc, yielded, log, msgVars, toolVars, adapterVars, cfgVars, httpVars>>

\* A line that is no data line, or a data line whose payload does not parse:
\* nothing is yielded.
StreamSkip(s, line, max) ==
  /\ pc[s] = "running"
  /\ Len(received[s]) < max
  /\ line.kind \in {"malformed", "blank"}
  /\ received' = [received EXCEPT ![s] = Append(@, line)]
  /\ UNCHANGED <<streamingToolCalls, owner, pc, yielded, log, msgVars, toolVars, adapterVars, cfgVars, httpVars>>

\* StreamDone that takes the sentinel for a line to skip and reads on.
StreamDoneReadingOn(s) ==
  /\ pc[s] = "running"
  /\ Len(received[s]) < MaxLines
  /\ received' = [received EXCEPT ![s] = Append(@, DoneLine)]
  /\ UNCHANGED <<streamingToolCalls, owner, pc, yielded, log, msgVars, toolVars, adapterVars, cfgVars, httpVars>>

\* The line 'data: [DONE]': the generator returns; the lines that follow it
\* in the body are not read.
StreamDone(s) ==
  /\ pc[s] = "running"
  /\ pc' = [pc EXCEPT ![s] = "done"]
  /\ received' = [received EXCEPT ![s] = Append(@, DoneLine)]
  /\ UNCHANGED <<streamingToolCalls, owner, yielded, log, msgVars, toolVars, adapterVars, cfgVars, httpVars>>

\* reader.read() reports the end of the body: the loop is left.
StreamEnd(s) ==
  /\ pc[s] = "running"
  /\ pc' = [pc EXCEPT ![s] = "ended"]
  /\ UNCHANGED <<streamingToolCalls, owner, received, yielded, log, msgVars, toolVars, adapterVars, cfgVars, httpVars>>

\* reader.read() rejects: the error leaves the generator.
StreamError(s) ==
  /\ pc[s] = "running"
  /\ pc' = [pc EXCEPT ![s] = "failed"]
  /\ UNCHANGED <<streamingToolCalls, owner, received, yielded, log, msgVars, toolVars, adapterVars, cfgVars, httpVars>>

Next ==
  \E s \in SoloStreams :
    \/ StreamStart(s)
    \/ \E line \in Lines : StreamChunk(s, line, MaxLines)
    \/ \E line \in Lines : StreamSkip(s, line, MaxLines)
    \/ StreamDone(s)
    \/ StreamEnd(s)
    \/ StreamError(s)

Spec == Init /\ [][Next]_vars

NextConc ==
  \E s \in Streams :
    \/ StreamStart(s)
    \/ \E line \in ConcLines \cup {MalformedLine} :
         \/ StreamChunk(s, line, MaxConcLines)
         \/ StreamSkip(s, line, MaxConcLines)
    \/ StreamDone(s)
    \/ StreamEnd(s)
    \/ StreamError(s)

SpecConc == InitConc /\ [][NextConc]_vars

----------------------------------------------------------------------------
(* JSON.stringify                                                          *)

Null == "<null>"

JsString(s) == [type |-> "string", str |-> s]
JsObject(o) == [type |-> "object", obj |-> o]
JsUndefined == [type |-> "undefined"]

OkTrue == {<<"ok", "true">>}

\* JSON.stringify of the objects the model's requests can hold.
StringifyObject(o) ==
  CASE o = EmptyObject -> "{}"
    [] o = CmdLs -> Frag1 \o Frag2
    [] o = OkTrue -> "{\"ok\":true}"

JSONStringify(v) ==
  CASE v.type = "string" -> "\"" \o v.str \o "\""
    [] v.type = "object" -> StringifyObject(v.obj)
    [] OTHER -> Undefined

----------------------------------------------------------------------------
(* convertContentsToMessages                                               *)

FunctionResponsePart(id, name, response) ==
  [kind |-> "functionResponse", id |-> id, name |-> name, response |-> response]
InlineDataPart(mimeType, data) ==
  [kind |-> "inlineData", mimeType |-> mimeType, data |-> data]

Content(role, parts) == [role |-> role, parts |-> parts]

\* The three shapes of the argument: a string, an array of parts, an array of
\* contents.
StringInput(text) == [form |-> "string", text |-> text, parts |-> <<>>, list |-> <<>>]
PartsInput(parts) == [form |-> "parts", text |-> Undefined, parts |-> parts, list |-> <<>>]
ContentsInput(list) == [form |-> "contents", text |-> Undefined, parts |-> <<>>, list |-> list]

Message(role, content, tool_call_id, tool_calls) ==
  [role |-> role, content |-> content, tool_call_id |-> tool_call_id,
   tool_calls |-> tool_calls]

\* The classification of the parts of one content.
PartFunctionCalls(parts) == SelectSeq(parts, LAMBDA p : p.kind = "functionCall")
PartFunctionResponses(parts) == SelectSeq(parts, LAMBDA p : p.kind = "functionResponse")
PartTexts(parts) ==
  LET ts == SelectSeq(parts, LAMBDA p : p.kind = "text" /\ Truthy(p.text))
  IN [m \in 1..Len(ts) |-> ts[m].text]
PartImages(parts) == SelectSeq(parts, LAMBDA p : p.kind = "inlineData")

\* Array.join(sep).
RECURSIVE Join(_, _)
Join(ts, sep) ==
  IF ts = <<>> THEN ""
  ELSE IF Len(ts) = 1 THEN ts[1]
  ELSE ts[1] \o sep \o Join(Tail(ts), sep)

\* textParts.join with the separator left out.
ConcatTexts(textParts) == Join(textParts, "")

\* textParts.join('\n')
JoinTexts(textParts) == Join(textParts, "\n")

\* The content of a tool message with every response serialized, strings too.
ToolContentAlwaysSerialized(response) == JSONStringify(response)

\* typeof response === 'string' ? response : JSON.stringify(response)
ToolContent(response) ==
  IF response.type = "string" THEN response.str ELSE JSONStringify(response)

ToolMessageOf(funcResponse) ==
  Message("tool", ToolContent(funcResponse.response),
          IF Truthy(funcResponse.id) THEN funcResponse.id ELSE "", <<>>)

ToolCallOf(fc, index) ==
  [id |-> IF Truthy(fc.id) THEN fc.id ELSE "call_" \o ToString(index),
   type |-> "function",
   function |->
     [name |-> IF Truthy(fc.name) THEN fc.name ELSE "",
      arguments |-> JSONStringify(IF fc.args.type = "undefined"
                                  THEN JsObject(EmptyObject) ELSE fc.args)]]

\* One entry of the multi-part body of a message with images.
ImageItem(part) ==
  "{\"type\":\"image_url\",\"image_url\":{\"url\":\"data:" \o part.mimeType
  \o ";base64," \o part.data \o "\"}}"

\* JSON.stringify(messageContent); a text is serialized with its line feeds
\* escaped.
ImageMessageContent(textParts, imageParts) ==
  "[" \o Join((IF textParts = <<>> THEN <<>>
               ELSE <<"{\"type\":\"text\",\"text\":\"" \o Join(textParts, "\\n") \o "\"}">>)
              \o [m \in 1..Len(imageParts) |-> ImageItem(imageParts[m])], ",")
  \o "]"

\* ContentMessages with 'if' where the code has 'else if': after the tool
\* messages of a content, its tool calls and its text are translated too.
ContentMessagesEveryBranch(content) ==
  LET functionCalls == PartFunctionCalls(content.parts)
      functionResponses == PartFunctionResponses(content.parts)
      textParts == PartTexts(content.parts)
      imageParts == PartImages(content.parts)
      role == IF content.role = "model" THEN "assistant" ELSE "user"
  IN [m \in 1..Len(functionResponses) |-> ToolMessageOf(functionResponses[m])]
     \o (IF content.role = "model" /\ functionCalls # <<>>
         THEN <<Message("assistant",
                        IF JoinTexts(textParts) # "" THEN JoinTexts(textParts) ELSE Null,
                        Undefined,
                        [m \in 1..Len(functionCalls) |->
                           ToolCallOf(functionCalls[m], m - 1)])>>
         ELSE IF imageParts # <<>>
         THEN <<Message(role, ImageMessageContent(textParts, imageParts), Undefined, <<>>)>>
         ELSE IF JoinTexts(textParts) # ""
         THEN <<Message(role, JoinTexts(textParts), Undefined, <<>>)>>
         ELSE <<>>)

\* ContentMessages with a message pushed for a plain content without text
\* too.
ContentMessagesKeepingEmpty(content) ==
  LET functionCalls == PartFunctionCalls(content.parts)
      functionResponses == PartFunctionResponses(content.parts)
      textParts == PartTexts(content.parts)
      imageParts == PartImages(content.parts)
      role == IF content.role = "model" THEN "assistant" ELSE "user"
  IN IF functionResponses # <<>>
     THEN [m \in 1..Len(functionResponses) |-> ToolMessageOf(functionResponses[m])]
     ELSE IF content.role = "model" /\ functionCalls # <<>>
     THEN <<Message("assistant",
                    IF JoinTexts(textParts) # "" THEN JoinTexts(textParts) ELSE Null,
                    Undefined,
                    [m \in 1..Len(functionCalls) |-> ToolCallOf(functionCalls[m], m - 1)])>>
     ELSE IF imageParts # <<>>
     THEN <<Message(role, ImageMessageContent(textParts, imageParts), Undefined, <<>>)>>
     ELSE <<Message(role, JoinTexts(textParts), Undefined, <<>>)>>

\* The messages pushed for one content of the array.
ContentMessages(content) ==
  LET functionCalls == PartFunctionCalls(content.parts)
      functionResponses == PartFunctionResponses(content.parts)
      textParts == PartTexts(content.parts)
      imageParts == PartImages(content.parts)
      role == IF content.role = "model" THEN "assistant" ELSE "user"
  IN IF functionResponses # <<>>
     THEN [m \in 1..Len(functionResponses) |-> ToolMessageOf(functionResponses[m])]
     ELSE IF content.role = "model" /\ functionCalls # <<>>
     THEN <<Message("assistant",
                    IF JoinTexts(textParts) # "" THEN JoinTexts(textParts) ELSE Null,
                    Undefined,
                    [m \in 1..Len(functionCalls) |-> ToolCallOf(functionCalls[m], m - 1)])>>
     ELSE IF imageParts # <<>>
     THEN <<Message(role, ImageMessageContent(textParts, imageParts), Undefined, <<>>)>>
     ELSE IF JoinTexts(textParts) # ""
     THEN <<Message(role, JoinTexts(textParts), Undefined, <<>>)>>
     ELSE <<>>

\* The loop over the contents: each message with the position of its content.
RECURSIVE ConvertFrom(_, _)
ConvertFrom(list, i) ==
  IF i > Len(list) THEN <<>>
  ELSE LET ms == ContentMessages(list[i])
       IN [m \in 1..Len(ms) |-> [message |-> ms[m], from |-> i]]
          \o ConvertFrom(list, i + 1)

\* part.text of the parts of an array of parts, joined; a part without text
\* contributes nothing.
PartsText(parts) ==
  Join([m \in 1..Len(parts) |->
          IF parts[m].kind = "text" THEN parts[m].text ELSE ""], "")

convertContentsToMessages(input) ==
  IF input.form = "string"
  THEN <<[message |-> Message("user", input.text, Undefined, <<>>), from |-> 0]>>
  ELSE IF input.form = "parts" /\ input.parts # <<>> /\ input.parts[1].kind = "text"
  THEN <<[message |-> Message("user", PartsText(input.parts), Undefined, <<>>), from |-> 0]>>
  ELSE ConvertFrom(input.list, 1)

----------------------------------------------------------------------------
(* The requests the translation is applied to                              *)

Roles == {"user", "model"}

PartSet ==
  { TextPart("a"),
    FunctionCallPart("t1", "runShell", JsObject(CmdLs)),
    FunctionCallPart(Undefined, "readFile", JsUndefined),
    FunctionResponsePart("t1", "runShell", JsObject(OkTrue)),
    FunctionResponsePart(Undefined, "readFile", JsString("done")),
    FunctionResponsePart("t2", "readFile", JsString("done")),
    InlineDataPart("image/png", "AAAA") }

\* The ways to give n contents t parts in all.
RECURSIVE SumTo(_, _)
SumTo(ks, n) == IF n = 0 THEN 0 ELSE SumTo(ks, n - 1) + ks[n]

Splits(n, t) == {ks \in [1..n -> 0..t] : SumTo(ks, n) = t}

\* The Content[] whose i-th content has role rs[i] and the next ks[i] parts
\* of flat.
Conversation(rs, ks, flat) ==
  [i \in 1..Len(ks) |->
     Content(rs[i], SubSeq(flat, SumTo(ks, i - 1) + 1, SumTo(ks, i)))]

\* request.contents is a string, a Part[] or a Content[]; a Content[] has at
\* most MaxContents contents and at most MaxParts parts in all.
InitMsg ==
  /\ InitStreams
  /\ owner = [s \in Streams |-> "a1"]
  /\ InitNoTools
  /\ InitAdapter
  /\ InitNoConfigCall
  /\ InitNoHttp
  /\ \/ contents = StringInput("hi")
     \/ \E k \in 0..MaxParts : \E ps \in [1..k -> PartSet] :
          contents = PartsInput(ps)
     \/ \E n \in 0..MaxContents, t \in 0..MaxParts :
          \E ks \in Splits(n, t), rs \in [1..n -> Roles], flat \in [1..t -> PartSet] :
            contents = ContentsInput(Conversation(rs, ks, flat))
  /\ messages = <<>>
  /\ origin = <<>>
  /\ msgPc = "called"

ConvertContents ==
  /\ msgPc = "called"
  /\ LET out == convertContentsToMessages(contents)
     IN /\ messages' = [m \in 1..Len(out) |-> out[m].message]
        /\ origin' = [m \in 1..Len(out) |-> out[m].from]
  /\ msgPc' = "returned"
  /\ UNCHANGED <<contents, streamVars, toolVars, adapterVars, cfgVars, httpVars>>

NextMsg == ConvertContents

SpecMsg == InitMsg /\ [][NextMsg]_vars

----------------------------------------------------------------------------
(* convertGeminiToolsToOpenAI                                              *)

\* A schema of the model is flat: a type and, possibly, a minimum.
NoSchema == [kind |-> "undefined"]
Absent == [type |-> "absent"]
JsNumber(n) == [type |-> "number", num |-> n]
Schema(type, minimum) == [kind |-> "schema", type |-> type, minimum |-> minimum]

\* String.toLowerCase on the type names of the model.
ToLowerCase(s) ==
  CASE s = "OBJECT" -> "object"
    [] s = "INTEGER" -> "integer"
    [] OTHER -> s

\* Number(value) of the numeric texts of the model.
IsNumeric(s) == s \in {"5"}
NumberOf(s) == CASE s = "5" -> 5

convertGeminiParametersToOpenAI(parameters) ==
  IF parameters.kind = "undefined" THEN parameters
  ELSE Schema(ToLowerCase(parameters.type),
              IF parameters.minimum.type = "string" /\ IsNumeric(parameters.minimum.str)
              THEN JsNumber(NumberOf(parameters.minimum.str))
              ELSE parameters.minimum)

FunctionDeclaration(name, description, parameters) ==
  [name |-> name, description |-> description, parameters |-> parameters]

\* A Tool, and a CallableTool whose tool() yields one.
DirectTool(functionDeclarations) ==
  [callable |-> FALSE, functionDeclarations |-> functionDeclarations]
CallableTool(functionDeclarations) ==
  [callable |-> TRUE, tool |-> DirectTool(functionDeclarations)]

\* ActualTool with a CallableTool read as if it were a Tool: it has no
\* functionDeclarations of its own.
ActualToolNotUnwrapped(tool) == IF tool.callable THEN DirectTool(<<>>) ELSE tool

\* 'tool' in tool ? await tool.tool() : tool
ActualTool(tool) == IF tool.callable THEN tool.tool ELSE tool

OpenAITool(func) ==
  [type |-> "function",
   function |-> [name |-> func.name, description |-> func.description,
                 parameters |-> convertGeminiParametersToOpenAI(func.parameters)]]

\* if (func.name && func.description)
DeclarationKept(func) == Truthy(func.name) /\ Truthy(func.description)

\* The inner loop: the wire tools pushed for the declarations of one tool.
RECURSIVE DeclarationTools(_)
DeclarationTools(funcs) ==
  IF funcs = <<>> THEN <<>>
  ELSE (IF DeclarationKept(Head(funcs)) THEN <<OpenAITool(Head(funcs))>> ELSE <<>>)
       \o DeclarationTools(Tail(funcs))

RECURSIVE convertGeminiToolsToOpenAI(_)
convertGeminiToolsToOpenAI(tools) ==
  IF tools = <<>> THEN <<>>
  ELSE DeclarationTools(ActualTool(Head(tools)).functionDeclarations)
       \o convertGeminiToolsToOpenAI(Tail(tools))

DeclSet ==
  { FunctionDeclaration("runShell", "run a command", Schema("OBJECT", Absent)),
    FunctionDeclaration("readFile", "read a file", NoSchema),
    FunctionDeclaration("count", Undefined, Schema("INTEGER", JsString("5"))),
    FunctionDeclaration("", "nameless", NoSchema) }

ToolSet ==
  UNION { {DirectTool(fs), CallableTool(fs)} :
            fs \in UNION {[1..k -> DeclSet] : k \in 0..MaxDecls} }

InitTools ==
  /\ InitStreams
  /\ owner = [s \in Streams |-> "a1"]
  /\ InitNoMessages
  /\ InitAdapter
  /\ InitNoConfigCall
  /\ InitNoHttp
  /\ geminiTools \in UNION {[1..k -> ToolSet] : k \in 0..MaxTools}
  /\ openAITools = <<>>
  /\ toolPc = "called"

ConvertTools ==
  /\ toolPc = "called"
  /\ openAITools' = convertGeminiToolsToOpenAI(geminiTools)
  /\ toolPc' = "returned"
  /\ UNCHANGED <<geminiTools, streamVars, msgVars, adapterVars, cfgVars, httpVars>>

NextTools == ConvertTools

SpecTools == InitTools /\ [][NextTools]_vars

----------------------------------------------------------------------------
(* What the streaming claims speak of, read off the histories              *)

CallParts(parts) == SelectSeq(parts, LAMBDA p : p.kind = "functionCall")
TextParts(parts) == SelectSeq(parts, LAMBDA p : p.kind = "text")

IsFinish(chunk) == chunk.hasChoice /\ Truthy(chunk.finish_reason)
HasNoFinishReason(chunk) == ~chunk.hasChoice \/ chunk.finish_reason = Undefined

SetMax(S) == CHOOSE x \in S : \A y \in S : y <= x
SetMin(S) == CHOOSE x \in S : \A y \in S : x <= y

\* The index a delta speaks of, 0 when it names none.
ClaimIndex(d) == IF d.index = <<>> THEN 0 ELSE d.index[1]

EventDeltas(e) ==
  IF e.op = "chunk" /\ e.chunk.hasChoice THEN e.chunk.tool_calls ELSE <<>>

\* An event that leaves the accumulator empty: a stream start, or a chunk
\* with a finish_reason.
Clears(e) == e.op = "clear" \/ (e.op = "chunk" /\ IsFinish(e.chunk))

\* The first event after the last clearing before event k.
SegStart(l, k) ==
  LET cs == {j \in 1..(k - 1) : Clears(l[j])}
  IN IF cs = {} THEN 1 ELSE SetMax(cs) + 1

RECURSIVE DeltasBetween(_, _, _)
DeltasBetween(l, from, to) ==
  IF from > to THEN <<>>
  ELSE EventDeltas(l[from]) \o DeltasBetween(l, from + 1, to)

\* The deltas that reached the accumulator since it was last cleared, up to
\* and including those of event k.
SegDeltas(l, k) == DeltasBetween(l, SegStart(l, k), k)

SeenIndices(ds) == {ClaimIndex(ds[m]) : m \in 1..Len(ds)}
NamedIndices(ds) ==
  {ClaimIndex(ds[m]) : m \in {n \in 1..Len(ds) : Truthy(ds[n].name)}}

LastId(ds, i) ==
  LET ms == {m \in 1..Len(ds) : ClaimIndex(ds[m]) = i /\ Truthy(ds[m].id)}
  IN IF ms = {} THEN Undefined ELSE ds[SetMax(ms)].id
LastName(ds, i) ==
  LET ms == {m \in 1..Len(ds) : ClaimIndex(ds[m]) = i /\ Truthy(ds[m].name)}
  IN IF ms = {} THEN Undefined ELSE ds[SetMax(ms)].name

RECURSIVE Fragments(_, _)
Fragments(ds, i) ==
  IF ds = <<>> THEN ""
  ELSE (IF ClaimIndex(Head(ds)) = i /\ Head(ds).arguments # Undefined
        THEN Head(ds).arguments ELSE "")
       \o Fragments(Tail(ds), i)

ParseOrEmpty(s) == IF JSONParses(s) THEN JSONParse(s) ELSE EmptyObject

\* The indices of ds in the order of their first delta.
RECURSIVE IndexOrder(_, _)
IndexOrder(ds, seen) ==
  IF ds = <<>> THEN <<>>
  ELSE LET i == ClaimIndex(Head(ds))
       IN IF i \in seen THEN IndexOrder(Tail(ds), seen)
          ELSE <<i>> \o IndexOrder(Tail(ds), seen \cup {i})

ExpectedCall(ds, i) ==
  FunctionCallPart(LastId(ds, i), LastName(ds, i), ParseOrEmpty(Fragments(ds, i)))

\* One call per index that was given a name, in the order of first delta.
ExpectedCalls(ds) ==
  LET order == SelectSeq(IndexOrder(ds, {}), LAMBDA i : i \in NamedIndices(ds))
  IN [m \in 1..Len(order) |-> ExpectedCall(ds, order[m])]

\* The stream's own lines as a history of one accumulator.
OwnLog(s) ==
  [m \in 1..Len(received[s]) |->
     IF received[s][m].kind = "data"
     THEN ChunkEvent(s, received[s][m].chunk, <<>>)
     ELSE ChunkEvent(s, NoChoiceChunk, <<>>)]

WireChunk(s, k) == received[s][yielded[s][k].line].chunk

RECURSIVE CountCalls(_)
CountCalls(ys) ==
  IF ys = <<>> THEN 0 ELSE Len(CallParts(Head(ys).parts)) + CountCalls(Tail(ys))

----------------------------------------------------------------------------
(* C1: a canonical chunk emitted for a wire chunk without finish_reason    *)
(* carries no tool-call part, whatever deltas have been accumulated.       *)
C1_NoCallWithoutFinish ==
  \A s \in Streams : \A k \in 1..Len(yielded[s]) :
    HasNoFinishReason(WireChunk(s, k)) => CallParts(yielded[s][k].parts) = <<>>

\* A delta chunk without finish_reason was converted while a named call sat
\* in the accumulator.
C1_Witness ==
  \E s \in Streams :
    /\ yielded[s] # <<>>
    /\ LET k == Len(yielded[s])
       IN /\ HasNoFinishReason(WireChunk(s, k))
          /\ WireChunk(s, k).tool_calls # <<>>
          /\ yielded[s][k].line = Len(received[s])
    /\ \E m \in 1..Len(streamingToolCalls[owner[s]]) :
         Truthy(streamingToolCalls[owner[s]][m].name)

----------------------------------------------------------------------------
(* C2 as stated: over a stream that ends with its finish_reason chunk, the *)
(* number of tool-call parts emitted equals the number of distinct indices *)
(* seen in the stream's deltas, all of them in that last chunk.            *)
C2_CountEqualsDistinctIndices ==
  \A s \in Streams :
    (yielded[s] # <<>> /\ IsFinish(WireChunk(s, Len(yielded[s])))) =>
      /\ CountCalls(yielded[s]) =
           Cardinality(SeenIndices(DeltasBetween(OwnLog(s), 1, Len(received[s]))))
      /\ CountCalls(yielded[s]) = Len(CallParts(yielded[s][Len(yielded[s])].parts))

(* C2 amended: a chunk with a finish_reason carries exactly one tool-call  *)
(* part per distinct index that was given a non-empty name by the deltas   *)
(* the accumulator took since it was last cleared; any other chunk none.   *)
C2_CountPerFinish ==
  \A a \in Adapters : \A k \in 1..Len(log[a]) :
    log[a][k].op = "chunk" =>
      Len(CallParts(log[a][k].parts)) =
        IF IsFinish(log[a][k].chunk)
        THEN Cardinality(NamedIndices(SegDeltas(log[a], k)))
        ELSE 0

\* A finish chunk emitted fewer calls than indices were seen: one index had
\* a name, another never got one.
C2_Witness ==
  \E a \in Adapters : \E k \in 1..Len(log[a]) :
    /\ log[a][k].op = "chunk" /\ IsFinish(log[a][k].chunk)
    /\ Len(CallParts(log[a][k].parts)) = 1
    /\ Cardinality(SeenIndices(SegDeltas(log[a], k))) = 2

----------------------------------------------------------------------------
(* C3 as stated: an emitted call has the args parsed from all fragments of *)
(* its index since the stream started, and the last id and name.           *)
C3_ArgsSinceStreamStart ==
  \A s \in Streams : \A k \in 1..Len(yielded[s]) :
    LET ds == DeltasBetween(OwnLog(s), 1, yielded[s][k].line)
        calls == CallParts(yielded[s][k].parts)
    IN \A m \in 1..Len(calls) :
         \E i \in SeenIndices(ds) : calls[m] = ExpectedCall(ds, i)

(* C3 amended: the calls a finish chunk emits are, per named index in      *)
(* order of first delta, the last non-empty id and name and the parse ({}  *)
(* when it fails or is empty) of the fragments appended, in arrival order, *)
(* since the accumulator was last cleared.                                 *)
C3_CallsAssembledFromSegment ==
  \A a \in Adapters : \A k \in 1..Len(log[a]) :
    (log[a][k].op = "chunk" /\ IsFinish(log[a][k].chunk)) =>
      CallParts(log[a][k].parts) = ExpectedCalls(SegDeltas(log[a], k))

\* The S3 scenario: a call with args {cmd: ls} was emitted whose arguments
\* arrived as two fragments in two deltas.
C3_Witness ==
  \E a \in Adapters : \E k \in 1..Len(log[a]) :
    /\ log[a][k].op = "chunk" /\ IsFinish(log[a][k].chunk)
    /\ \E m \in 1..Len(log[a][k].parts) :
         /\ log[a][k].parts[m].kind = "functionCall"
         /\ log[a][k].parts[m].args = CmdLs
    /\ LET ds == SegDeltas(log[a], k)
       IN \E m, n \in 1..Len(ds) :
            m < n /\ ds[m].arguments = Frag1 /\ ds[n].arguments = Frag2

----------------------------------------------------------------------------
(* C4: after a chunk with finish_reason the accumulator is empty, and a    *)
(* call emitted by a later finish chunk was named by a delta that arrived  *)
(* after the earlier finish chunk: nothing is emitted twice.               *)
C4_EmittedAtMostOnce ==
  \A a \in Adapters :
    /\ (log[a] # <<>> /\ Clears(log[a][Len(log[a])])) => streamingToolCalls[a] = <<>>
    /\ \A j, k \in 1..Len(log[a]) :
         (j < k /\ Clears(log[a][j]) /\ log[a][k].op = "chunk") =>
           \A m \in 1..Len(CallParts(log[a][k].parts)) :
             \E n \in (j + 1)..k : \E d \in 1..Len(EventDeltas(log[a][n])) :
               EventDeltas(log[a][n])[d].name = CallParts(log[a][k].parts)[m].name

\* Calls were emitted by one finish chunk and a second finish chunk of the
\* same stream followed it.
C4_Witness ==
  \E a \in Adapters : \E j, k \in 1..Len(log[a]) :
    /\ j < k
    /\ log[a][j].op = "chunk" /\ IsFinish(log[a][j].chunk)
    /\ CallParts(log[a][j].parts) # <<>>
    /\ log[a][k].op = "chunk" /\ IsFinish(log[a][k].chunk)
    /\ log[a][k].stream = log[a][j].stream

----------------------------------------------------------------------------
(* C5 as stated: a finish chunk of a stream carries exactly the calls      *)
(* assembled from that stream's own deltas, whatever another stream does   *)
(* in between.                                                             *)
C5_StreamsIsolated ==
  \A s \in Streams : \A k \in 1..Len(yielded[s]) :
    IsFinish(WireChunk(s, k)) =>
      CallParts(yielded[s][k].parts) =
        ExpectedCalls(SegDeltas(OwnLog(s), yielded[s][k].line))

----------------------------------------------------------------------------
(* C6: the canonical chunks of a stream are those of its data lines, one   *)
(* each and in arrival order, and in each chunk text parts precede         *)
(* tool-call parts.                                                        *)
C6_ArrivalOrderTextFirst ==
  \A s \in Streams :
    LET data == SelectSeq(received[s], LAMBDA l : l.kind = "data")
    IN /\ Len(yielded[s]) = Len(data)
       /\ \A k \in 1..Len(yielded[s]) :
            LET parts == yielded[s][k].parts
            IN /\ yielded[s][k].finishReason = ChunkFinishReason(data[k].chunk)
               /\ TextParts(parts) =
                    IF data[k].chunk.hasChoice /\ Truthy(data[k].chunk.content)
                    THEN <<TextPart(data[k].chunk.content)>> ELSE <<>>
               /\ \A m, n \in 1..Len(parts) :
                    (parts[m].kind = "functionCall" /\ parts[n].kind = "text") => n < m

\* Two chunks were yielded, a skipped line lay between their lines, and the
\* later chunk carries a text part and a tool-call part.
C6_Witness ==
  \E s \in Streams :
    /\ Len(yielded[s]) >= 2
    /\ received[s][1].kind = "data"
    /\ received[s][2].kind # "data"
    /\ LET parts == yielded[s][Len(yielded[s])].parts
       IN /\ TextParts(parts) # <<>>
          /\ CallParts(parts) # <<>>

----------------------------------------------------------------------------
(* What the translation claims speak of                                    *)

RECURSIVE AllParts(_)
AllParts(list) ==
  IF list = <<>> THEN <<>> ELSE Head(list).parts \o AllParts(Tail(list))

ToolResponsesOf(parts) == SelectSeq(parts, LAMBDA p : p.kind = "functionResponse")
ToolCallsOf(parts) == SelectSeq(parts, LAMBDA p : p.kind = "functionCall")
TextsOf(parts) ==
  LET ts == SelectSeq(parts, LAMBDA p : p.kind = "text")
  IN [m \in 1..Len(ts) |-> ts[m].text]

Translated == msgPc = "returned" /\ contents.form = "contents"

\* The wire messages pushed for content i, in order.
MessagesFrom(i) ==
  LET ks == SelectSeq([m \in 1..Len(messages) |-> m], LAMBDA m : origin[m] = i)
  IN [m \in 1..Len(ks) |-> messages[ks[m]]]

----------------------------------------------------------------------------
(* C7: the tool messages of the wire list are, one for one and in order,   *)
(* the tool-response parts of the contents: tool_call_id is the part's id  *)
(* and content is the response itself when it is a string and its JSON     *)
(* text otherwise.                                                         *)
C7_ToolResponsesOneToOne ==
  Translated =>
    LET frs == ToolResponsesOf(AllParts(contents.list))
        tms == SelectSeq(messages, LAMBDA m : m.role = "tool")
    IN /\ Len(tms) = Len(frs)
       /\ \A k \in 1..Len(frs) :
            /\ Truthy(frs[k].id) => tms[k].tool_call_id = frs[k].id
            /\ tms[k].content =
                 IF frs[k].response.type = "string"
                 THEN frs[k].response.str
                 ELSE JSONStringify(frs[k].response)

\* A conversation with a string response and an object response, both with
\* an id, was translated.
C7_Witness ==
  /\ Translated
  /\ \E m, n \in 1..Len(messages) :
       /\ messages[m].role = "tool" /\ messages[m].tool_call_id = "t1"
       /\ messages[m].content = "{\"ok\":true}"
       /\ messages[n].role = "tool" /\ messages[n].tool_call_id = "t2"
       /\ messages[n].content = "done"

----------------------------------------------------------------------------
(* C8 as stated: when a tool-response part answers a tool-call part of an  *)
(* earlier model content (same name, and the same id or both without id),  *)
(* the wire list holds an assistant message with a tool_calls entry of     *)
(* some id W and, later, a tool message with tool_call_id W.               *)
Answers(fr, fc) == fr.name = fc.name /\ fr.id = fc.id

C8_BindingPreserved ==
  Translated =>
    \A i, j \in 1..Len(contents.list) :
      (/\ i < j
       /\ contents.list[i].role = "model"
       /\ ToolResponsesOf(contents.list[i].parts) = <<>>) =>
        \A c \in 1..Len(ToolCallsOf(contents.list[i].parts)) :
          \A r \in 1..Len(ToolResponsesOf(contents.list[j].parts)) :
            Answers(ToolResponsesOf(contents.list[j].parts)[r],
                    ToolCallsOf(contents.list[i].parts)[c]) =>
              \E m, n \in 1..Len(messages) :
                /\ m < n
                /\ origin[m] = i /\ messages[m].role = "assistant"
                /\ origin[n] = j /\ messages[n].role = "tool"
                /\ \E e \in 1..Len(messages[m].tool_calls) :
                     messages[m].tool_calls[e].id = messages[n].tool_call_id

----------------------------------------------------------------------------
(* C9 as stated: a model content with tool-call parts becomes exactly one  *)
(* assistant message whose content is the concatenation of its text parts  *)
(* (null when there is none) and whose tool_calls are its tool-call parts  *)
(* in order, each with the part's id or 'call_<index>'.                    *)
ExpectedToolCalls(parts) ==
  LET fcs == ToolCallsOf(parts)
  IN [k \in 1..Len(fcs) |->
        [id |-> IF fcs[k].id # Undefined /\ fcs[k].id # ""
                THEN fcs[k].id ELSE "call_" \o ToString(k - 1),
         type |-> "function",
         function |->
           [name |-> IF fcs[k].name = Undefined THEN "" ELSE fcs[k].name,
            arguments |-> IF fcs[k].args.type = "undefined"
                          THEN "{}" ELSE JSONStringify(fcs[k].args)]]]

C9_AssistantConcatenatesTexts ==
  Translated =>
    \A i \in 1..Len(contents.list) :
      (contents.list[i].role = "model" /\ ToolCallsOf(contents.list[i].parts) # <<>>) =>
        LET ms == MessagesFrom(i)
            text == Join(TextsOf(contents.list[i].parts), "")
        IN /\ Len(ms) = 1
           /\ ms[1].role = "assistant"
           /\ ms[1].content = IF text = "" THEN Null ELSE text
           /\ ms[1].tool_calls = ExpectedToolCalls(contents.list[i].parts)

(* C9 amended: a model content with tool-call parts and no tool-response   *)
(* part becomes exactly one assistant message whose content is its         *)
(* non-empty text parts joined by a line feed (null when there is none)    *)
(* and whose tool_calls are its tool-call parts in order, each with the    *)
(* part's id or 'call_<k>', k its 0-based position among the tool calls.   *)
C9_AssistantJoinsTextsByNewline ==
  Translated =>
    \A i \in 1..Len(contents.list) :
      (/\ contents.list[i].role = "model"
       /\ ToolCallsOf(contents.list[i].parts) # <<>>
       /\ ToolResponsesOf(contents.list[i].parts) = <<>>) =>
        LET ms == MessagesFrom(i)
            text == Join(SelectSeq(TextsOf(contents.list[i].parts),
                                   LAMBDA s : s # ""), "\n")
        IN /\ Len(ms) = 1
           /\ ms[1].role = "assistant"
           /\ ms[1].content = IF text = "" THEN Null ELSE text
           /\ ms[1].tool_calls = ExpectedToolCalls(contents.list[i].parts)

\* A model content with two text parts and a tool call without id was
\* translated.
C9_Witness ==
  /\ Translated
  /\ \E m \in 1..Len(messages) :
       /\ messages[m].role = "assistant"
       /\ messages[m].content = "a\na"
       /\ Len(messages[m].tool_calls) = 1
       /\ messages[m].tool_calls[1].id = "call_0"

----------------------------------------------------------------------------
(* C10 as stated: the wire tools are the function declarations of all the  *)
(* tools (a callable tool unwrapped), one for one and in order; read for   *)
(* requests whose declarations all carry a name.                           *)
RECURSIVE AllDeclarations(_)
AllDeclarations(tools) ==
  IF tools = <<>> THEN <<>>
  ELSE (IF Head(tools).callable
        THEN Head(tools).tool.functionDeclarations
        ELSE Head(tools).functionDeclarations)
       \o AllDeclarations(Tail(tools))

WireToolOf(func) ==
  [type |-> "function",
   function |-> [name |-> func.name, description |-> func.description,
                 parameters |-> convertGeminiParametersToOpenAI(func.parameters)]]

C10_OneWireToolPerDeclaration ==
  toolPc = "returned" =>
    LET funcs == AllDeclarations(geminiTools)
    IN (\A k \in 1..Len(funcs) : funcs[k].name # Undefined /\ funcs[k].name # "") =>
         openAITools = [k \in 1..Len(funcs) |-> WireToolOf(funcs[k])]

(* C10 amended: the wire tools are, one for one and in order, those        *)
(* function declarations of all the tools (a callable tool unwrapped) that *)
(* have a non-empty name and a non-empty description; a declaration        *)
(* lacking either yields no wire tool.                                     *)
C10_OneWireToolPerDescribedDeclaration ==
  toolPc = "returned" =>
    LET funcs == SelectSeq(AllDeclarations(geminiTools),
                           LAMBDA f : /\ f.name # Undefined /\ f.name # ""
                                      /\ f.description # Undefined /\ f.description # "")
    IN openAITools = [k \in 1..Len(funcs) |-> WireToolOf(funcs[k])]

\* A callable tool and a direct tool were translated, one declaration
\* without description among them, and a wire tool came out of the callable.
C10_Witness ==
  /\ toolPc = "returned"
  /\ Len(geminiTools) = 2
  /\ geminiTools[1].callable /\ ~geminiTools[2].callable
  /\ Len(AllDeclarations(geminiTools)) = 2
  /\ Len(openAITools) = 1
  /\ openAITools[1].function.name = "runShell"
  /\ geminiTools[1].tool.functionDeclarations # <<>>
  /\ geminiTools[1].tool.functionDeclarations[1].name = "runShell"

----------------------------------------------------------------------------
(* The network operations: building the wire request                       *)

ApplicationJson == "application/json"

\* The instruction appended for a JSON response (its text, in English).
JsonInstruction ==
  "\n\nReturn the result strictly as JSON, with no other text or explanation."

JsonObjectFormat == [type |-> "json_object"]

\* GenerateContentParameters / CountTokensParameters / EmbedContentParameters.
Request(model, requestContents, responseMimeType) ==
  [model |-> model, contents |-> requestContents,
   config |-> [responseMimeType |-> responseMimeType, response_format |-> JsUndefined]]

\* The instruction merged into the last part, or pushed as a part of its own.
WithInstruction(parts) ==
  LET lastPart == parts[Len(parts)]
  IN IF lastPart.kind = "text" /\ Truthy(lastPart.text)
     THEN [parts EXCEPT ![Len(parts)] = TextPart(lastPart.text \o JsonInstruction)]
     ELSE Append(parts, TextPart(JsonInstruction))

\* The copy of the request it returns.  lastContent.role is 'user' only when
\* contents is an array of contents: an element of a string or of an array
\* of parts has no role.
modifyRequestForJsonResponse(request) ==
  LET c == request.contents
      n == Len(c.list)
      rewritten ==
        IF c.form = "contents" /\ n > 0 /\ c.list[n].role = "user"
           /\ Len(c.list[n].parts) > 0
        THEN ContentsInput([c.list EXCEPT ![n] =
                              Content("user", WithInstruction(c.list[n].parts))])
        ELSE c
  IN [request EXCEPT !.contents = rewritten,
                     !.config.response_format = JsonObjectFormat]

WireRequest(model, wireMessages, response_format, stream) ==
  [model |-> model, messages |-> wireMessages, response_format |-> response_format,
   stream |-> stream]

\* buildApiRequest of a request without system instruction, generation
\* parameters and tools.
buildApiRequest(request) ==
  LET out == convertContentsToMessages(request.contents)
  IN WireRequest(request.model, [m \in 1..Len(out) |-> out[m].message],
                 request.config.response_format, FALSE)

\* The body each operation hands to fetch.
RequestSent(op, request) ==
  CASE op = "generateContent" ->
         buildApiRequest(IF request.config.responseMimeType = ApplicationJson
                         THEN modifyRequestForJsonResponse(request)
                         ELSE request)
    [] op = "generateContentStream" ->
         [buildApiRequest(request) EXCEPT !.stream = TRUE]
    [] op = "countTokens" -> buildApiRequest(request)

\* A single Content as the contents of an embedContent request.
SingleContent(parts) == [form |-> "content", text |-> Undefined, parts |-> parts, list |-> <<>>]

\* embedContent: the texts of the parts of a single content, joined by a
\* blank; the empty string for any other contents.
EmbedText(c) ==
  IF c.form = "content"
  THEN Join([k \in 1..Len(c.parts) |->
               IF c.parts[k].kind = "text" THEN c.parts[k].text ELSE ""], " ")
  ELSE ""

EmbeddingRequest(text) == [model |-> "text-embedding-ada-002", input |-> text]

\* One call of fetch: where to, what, the abort deadline, and how it ended.
Fetch(endpoint, body, timeout, reply) ==
  [endpoint |-> endpoint, body |-> body, timeout |-> timeout, reply |-> reply]

----------------------------------------------------------------------------
(* getConfigValue                                                          *)

IsSet(v) == v.t \notin {"undefined", "null"}

\* getConfigValue with 'value || next' in place of the tests for undefined
\* and null.
getConfigValueIfTruthy(config, key, defaultValue) ==
  LET po == config.providerOverrides
      override == IF CfgTruthy(po) /\ key \in DOMAIN po.o THEN po.o[key] ELSE CfgUndefined
      field == IF key \in DOMAIN config.top THEN config.top[key] ELSE CfgUndefined
  IN IF CfgTruthy(override) THEN override
     ELSE IF CfgTruthy(field) THEN field
     ELSE defaultValue

getConfigValue(config, key, defaultValue) ==
  LET po == config.providerOverrides
      override == IF CfgTruthy(po) /\ key \in DOMAIN po.o THEN po.o[key] ELSE CfgUndefined
      field == IF key \in DOMAIN config.top THEN config.top[key] ELSE CfgUndefined
  IN IF IsSet(override) THEN override
     ELSE IF IsSet(field) THEN field
     ELSE defaultValue

----------------------------------------------------------------------------
(* The network operations: the reply and what is made of it                *)

\* fetch rejects: a network error, or the abort of AbortSignal.timeout.
Rejected == [kind |-> "rejected", message |-> "fetch failed"]
TimedOut == [kind |-> "rejected", message |-> "The operation was aborted due to timeout"]
\* A response that is not ok.
Status(status) == [kind |-> "status", status |-> status]
\* An ok response whose body is no JSON document: response.json() rejects.
MalformedBody == [kind |-> "malformed"]
\* An ok response with a JSON body.
Body(error, choices, usage, data) ==
  [kind |-> "body", error |-> error, choices |-> choices, usage |-> usage, data |-> data]
\* An ok response whose body is an event stream.
EventStream == [kind |-> "stream"]
Pending == [kind |-> "pending"]

Choice(content, tool_calls, finish_reason) ==
  [content |-> content, tool_calls |-> tool_calls, finish_reason |-> finish_reason]

Usage(prompt, completion, total) ==
  CfgObject([k \in {"prompt_tokens", "completion_tokens", "total_tokens"} |->
    CASE k = "prompt_tokens" -> prompt
      [] k = "completion_tokens" -> completion
      [] OTHER -> total])

Candidate(index, parts, finishReason) ==
  [index |-> index, parts |-> parts, finishReason |-> finishReason]

ChoiceParts(choice) ==
  (IF Truthy(choice.content) THEN <<TextPart(choice.content)>> ELSE <<>>)
  \o [k \in 1..Len(choice.tool_calls) |-> CallPartOf(choice.tool_calls[k])]

UsageMetadata(usage) ==
  IF CfgTruthy(usage)
  THEN [promptTokenCount |-> Get(usage, "prompt_tokens"),
        candidatesTokenCount |-> Get(usage, "completion_tokens"),
        totalTokenCount |-> Get(usage, "total_tokens")]
  ELSE JsUndefined

\* convertToGeminiResponse of a body without error.
convertToGeminiResponse(response) ==
  [candidates |-> [k \in 1..Len(response.choices) |->
                     Candidate(0, ChoiceParts(response.choices[k]),
                               convertFinishReason(response.choices[k].finish_reason))],
   usageMetadata |-> UsageMetadata(response.usage)]

OrZero(v) == IF CfgTruthy(v) THEN v ELSE CfgNum(0)

TokenUsage(promptTokens, completionTokens, totalTokens) ==
  [promptTokens |-> promptTokens, completionTokens |-> completionTokens,
   totalTokens |-> totalTokens]

\* OpenAIAdapter.extractTokenUsage, of response.usage.
OpenAIExtractTokenUsage(usage) ==
  IF CfgTruthy(usage)
  THEN TokenUsage(OrZero(Get(usage, "prompt_tokens")),
                  OrZero(Get(usage, "completion_tokens")),
                  OrZero(Get(usage, "total_tokens")))
  ELSE CfgNull

----------------------------------------------------------------------------
(* JSON.stringify(request.contents)                                        *)

\* The texts of the model's requests hold no character that JSON escapes.
Quote(s) == "\"" \o s \o "\""
Member(key, json) == Quote(key) \o ":" \o json
\* A property whose value is undefined is left out.
OptionalMember(key, v) == IF v = Undefined THEN Undefined ELSE Member(key, v)
OptionalQuote(s) == IF s = Undefined THEN Undefined ELSE Quote(s)
ObjectText(members) ==
  "{" \o Join(SelectSeq(members, LAMBDA m : m # Undefined), ",") \o "}"
ArrayText(elements) == "[" \o Join(elements, ",") \o "]"

StringifyPart(p) ==
  CASE p.kind = "text" -> ObjectText(<<Member("text", Quote(p.text))>>)
    [] p.kind = "functionCall" ->
         ObjectText(<<Member("functionCall",
           ObjectText(<<OptionalMember("id", OptionalQuote(p.id)),
                        OptionalMember("name", OptionalQuote(p.name)),
                        OptionalMember("args", JSONStringify(p.args))>>))>>)
    [] p.kind = "functionResponse" ->
         ObjectText(<<Member("functionResponse",
           ObjectText(<<OptionalMember("id", OptionalQuote(p.id)),
                        OptionalMember("name", OptionalQuote(p.name)),
                        OptionalMember("response", JSONStringify(p.response))>>))>>)
    [] OTHER ->
         ObjectText(<<Member("inlineData",
           ObjectText(<<Member("mimeType", Quote(p.mimeType)),
                        Member("data", Quote(p.data))>>))>>)

StringifyParts(parts) == ArrayText([k \in 1..Len(parts) |-> StringifyPart(parts[k])])

StringifyContent(content) ==
  ObjectText(<<Member("role", Quote(content.role)),
               Member("parts", StringifyParts(content.parts))>>)

StringifyContents(c) ==
  CASE c.form = "string" -> Quote(c.text)
    [] c.form = "parts" -> StringifyParts(c.parts)
    [] c.form = "content" -> StringifyContent(Content("user", c.parts))
    [] OTHER -> ArrayText([k \in 1..Len(c.list) |-> StringifyContent(c.list[k])])

\* Math.ceil(contentStr.length / 4)
Estimate(c) == (Len(StringifyContents(c)) + 3) \div 4

----------------------------------------------------------------------------
(* The errors of the network operations                                    *)

\* Where pattern first occurs in s at or after position i; 0 when nowhere.
RECURSIVE IndexFrom(_, _, _)
IndexFrom(s, pattern, i) ==
  IF i + Len(pattern) - 1 > Len(s) THEN 0
  ELSE IF SubSeq(s, i, i + Len(pattern) - 1) = pattern THEN i
  ELSE IndexFrom(s, pattern, i + 1)

\* String.prototype.includes
StringIncludes(s, pattern) == IndexFrom(s, pattern, 1) # 0

\* String.prototype.toLowerCase, of ASCII texts.
UpperCaseLetters == "ABCDEFGHIJKLMNOPQRSTUVWXYZ"
LowerCaseLetters == "abcdefghijklmnopqrstuvwxyz"
RECURSIVE LowerCased(_)
LowerCased(s) ==
  IF s = "" THEN s
  ELSE LET c == SubSeq(s, 1, 1)
           i == IndexFrom(UpperCaseLetters, c, 1)
       IN (IF i = 0 THEN c ELSE SubSeq(LowerCaseLetters, i, i))
            \o LowerCased(SubSeq(s, 2, Len(s)))

\* new Error(message): an error has its constructor's name and a message;
\* the errors of the model have no code and no type.
JsError(message) == [name |-> "Error", message |-> message]

\* response.statusText of the statuses of the model.
StatusText(status) ==
  CASE status = 401 -> "Unauthorized"
    [] status = 429 -> "Too Many Requests"
    [] status = 504 -> "Gateway Timeout"
    [] OTHER -> "Internal Server Error"

isTimeoutError(error) ==
  LET errorMessage == LowerCased(error.message)
  IN \E indicator \in {"timeout", "timed out", "connection timeout", "request timeout",
                       "read timeout", "etimedout", "esockettimedout",
                       "request timed out", "deadline exceeded"} :
       StringIncludes(errorMessage, indicator)

\* What the try block of the operation throws on the reply.
ErrorRaised(op, reply) ==
  CASE reply.kind = "rejected" -> JsError(reply.message)
    [] reply.kind = "status" ->
         JsError((IF op = "embedContent" THEN "Embeddings API error: " ELSE "API error: ")
                   \o ToString(reply.status) \o " " \o StatusText(reply.status))
    [] reply.kind = "malformed" -> JsError("Unexpected token < in JSON at position 0")
    [] reply.kind = "body" /\ op = "generateContent" -> JsError("API error: " \o reply.error)
    [] OTHER -> JsError("Cannot read properties of undefined (reading '0')")

\* What the catch block of the operation throws for an error of its try
\* block; embedContent has no catch block.  The calls of the model fail
\* within half a second: Math.round(durationMs / 1000) is 0.
Rethrown(op, error) ==
  CASE op = "generateContent" ->
         IF isTimeoutError(error)
         THEN JsError("Request timeout after 0s. Try reducing input length or increasing timeout in config."
                        \o "\n\nTroubleshooting tips:\n"
                        \o "- Reduce input length or complexity\n"
                        \o "- Increase timeout in config: timeout\n"
                        \o "- Check network connectivity\n"
                        \o "- Consider using streaming mode for long responses")
         ELSE JsError("OpenAI API error: " \o error.message)
    [] op = "generateContentStream" ->
         IF isTimeoutError(error)
         THEN JsError("Stream timeout after 0s. Try reducing input length or increasing timeout in config."
                        \o "\n\nTroubleshooting tips:\n"
                        \o "- Reduce input length or complexity\n"
                        \o "- Increase timeout in config: timeout\n"
                        \o "- Check network connectivity")
         ELSE JsError("OpenAI API stream error: " \o error.message)
    [] OTHER -> error

\* getEndpointUrl of an endpoint that the descriptor lacks.
EndpointError(endpointType) ==
  JsError("Endpoint '" \o endpointType \o "' not found in adapter config")

----------------------------------------------------------------------------
(* generateContent, generateContentStream, countTokens, embedContent       *)

Returned(value) == [kind |-> "returned", value |-> value]
Thrown(cause) == [kind |-> "thrown", cause |-> cause]
TokenCount(n) == [totalTokens |-> n]

EndpointOf(op) == IF op = "embedContent" THEN "embedding" ELSE "chat"

\* Whether the reply makes the operation's code throw after the fetch.
Fails(op, reply) ==
  \/ reply.kind \in {"rejected", "status", "malformed"}
  \/ op = "generateContent" /\ reply.kind = "body" /\ Truthy(reply.error)
  \/ op = "embedContent" /\ reply.kind = "body" /\ reply.data = CfgUndefined

\* OnFailure with a retry loop around the fetch, driven by maxRetries.
OnFailureRetrying(op, tries, maxRetries) ==
  IF tries <= maxRetries THEN "retry"
  ELSE IF op = "countTokens" THEN "estimate" ELSE "throw"

\* OnFailure with a catch block in countTokens that rethrows.
OnFailureRethrowing(op, tries, maxRetries) == "throw"

\* What the code does about a failure in its try block: the catch block of
\* countTokens swallows it and the estimate follows, every other operation
\* throws.  Neither the number of tries nor maxRetries is looked at.
OnFailure(op, tries, maxRetries) ==
  IF op = "countTokens" THEN "estimate" ELSE "throw"

Step(next, result) == [next |-> next, result |-> result]

\* What the operation makes of the reply to its fetch.
Outcome(op, request, reply, tries, maxRetries) ==
  LET estimate == Returned(TokenCount(CfgNum(Estimate(request.contents))))
  IN IF Fails(op, reply)
     THEN LET f == OnFailure(op, tries, maxRetries)
          IN CASE f = "retry" -> Step("called", <<>>)
               [] f = "estimate" -> Step("returned", estimate)
               [] OTHER -> Step("thrown", Thrown(Rethrown(op, ErrorRaised(op, reply))))
     ELSE CASE op = "generateContent" ->
                 Step("returned", Returned(convertToGeminiResponse(reply)))
            [] op = "generateContentStream" ->
                 Step("streaming", Returned("generator"))
            [] op = "countTokens" ->
                 LET usage == OpenAIExtractTokenUsage(reply.usage)
                 IN IF usage # CfgNull
                    THEN Step("returned", Returned(TokenCount(usage.promptTokens)))
                    ELSE Step("returned", estimate)
            [] OTHER ->
                 Step("returned", Returned([embeddings |-> <<[values |-> reply.data]>>]))

\* The request rewritten in the caller's own object, as if
\* modifyRequestForJsonResponse worked on the request it is given.
RewrittenInPlace(op, request) ==
  IF op = "generateContent" /\ request.config.responseMimeType = ApplicationJson
  THEN modifyRequestForJsonResponse(request)
  ELSE request

\* The caller's request object once the operation has built its wire
\* request: modifyRequestForJsonResponse rewrites
\* JSON.parse(JSON.stringify(request)), an object that shares nothing with
\* the request, and neither buildApiRequest nor convertContentsToMessages
\* assigns to the request or to anything reached from it.
CallerRequestAfter(op, request) == request

MaxRetriesOf(config) == getConfigValue(config, "maxRetries", CfgNum(0)).n

\* The operation runs up to its fetch; countTokens under 'estimation' and
\* an operation whose endpoint the descriptor lacks end before it: the
\* missing endpoint throws, inside the try block in countTokens.
HttpInvoke ==
  /\ httpPc = "called"
  /\ LET op == httpCall.op
         request == httpCall.request
     IN IF op = "countTokens" /\ adapterConfig.method # "response_usage"
        THEN /\ httpResult' = Returned(TokenCount(CfgNum(Estimate(request.contents))))
             /\ httpPc' = "returned"
             /\ UNCHANGED <<fetches, attempts>>
        ELSE IF EndpointOf(op) \notin DOMAIN adapterConfig.endpoints
        THEN /\ httpResult' =
                  IF OnFailure(op, attempts, MaxRetriesOf(userConfig)) = "estimate"
                  THEN Returned(TokenCount(CfgNum(Estimate(request.contents))))
                  ELSE Thrown(Rethrown(op, EndpointError(EndpointOf(op))))
             /\ httpPc' =
                  IF OnFailure(op, attempts, MaxRetriesOf(userConfig)) = "estimate"
                  THEN "returned" ELSE "thrown"
             /\ UNCHANGED <<fetches, attempts>>
        ELSE /\ fetches' = Append(fetches,
                  Fetch(EndpointOf(op),
                        IF op = "embedContent"
                        THEN EmbeddingRequest(EmbedText(request.contents))
                        ELSE RequestSent(op, request),
                        getConfigValue(userConfig, "timeout", CfgNum(30000)),
                        Pending))
             /\ attempts' = attempts + 1
             /\ httpPc' = "fetching"
             /\ UNCHANGED httpResult
  /\ httpCall' = [httpCall EXCEPT
                   !.request = CallerRequestAfter(httpCall.op, httpCall.request)]
  /\ UNCHANGED <<streamVars, msgVars, toolVars, adapterVars, cfgVars>>

\* The fetch settles and the operation runs to its end, or up to the return
\* of the generator.
HttpSettle(reply) ==
  /\ httpPc = "fetching"
  /\ reply.kind = "stream" => httpCall.op = "generateContentStream"
  /\ httpCall.op = "generateContentStream" => reply.kind \in {"rejected", "status", "stream"}
  /\ LET o == Outcome(httpCall.op, httpCall.request, reply, attempts,
                      MaxRetriesOf(userConfig))
     IN /\ httpPc' = o.next
        /\ httpResult' = o.result
        /\ pc' = IF o.next = "streaming" THEN [pc EXCEPT !["s1"] = "created"] ELSE pc
  /\ fetches' = [fetches EXCEPT ![Len(fetches)].reply = reply]
  /\ UNCHANGED <<httpCall, attempts, streamingToolCalls, owner, received, yielded, log,
                 msgVars, toolVars, adapterVars, cfgVars>>

----------------------------------------------------------------------------
(* The calls and replies the operations are run on                         *)

MaxBodyLines == 1   \* lines the generator of a streamed reply takes at most

FinishReasons ==
  {"stop", "tool_calls", "length", "content_filter", "function_call", "", Undefined}

\* The lines of a streamed reply.
BodyLines ==
  {DataLine(Chunk("hi", <<>>, f)) : f \in FinishReasons}
  \cup {DataLine(Chunk(Undefined, <<Delta(<<0>>, "t1", "runShell", "{}")>>, Undefined)),
        DataLine(Chunk(Undefined, <<Delta(<<0>>, "t1", "runShell", Frag1),
                                    Delta(<<1>>, "t2", "readFile", "")>>, "tool_calls")),
        MalformedLine}

Usages ==
  {CfgUndefined,
   Usage(CfgNum(7), CfgNum(2), CfgNum(9)),
   Usage(CfgUndefined, CfgNum(2), CfgNum(2)),
   CfgObject(NoKeys)}

Replies ==
  {Rejected, TimedOut, Status(401), Status(429), Status(500), Status(504),
   MalformedBody, EventStream,
   Body("bad request", <<>>, CfgUndefined, CfgUndefined),
   Body(Undefined, <<>>, CfgUndefined, CfgArray(<<1, 2>>)),
   Body(Undefined, <<Choice(Undefined, <<Delta(<<>>, "t1", "runShell", "{}")>>, "tool_calls")>>,
        Usage(CfgNum(7), CfgNum(2), CfgNum(9)), CfgUndefined),
   Body(Undefined, <<Choice(Undefined, <<Delta(<<>>, "t1", "runShell", Frag1),
                                         Delta(<<>>, "t2", "readFile", "")>>,
                            "tool_calls")>>,
        CfgUndefined, CfgUndefined)}
  \cup {Body(Undefined, <<Choice("hi", <<>>, f)>>, u, CfgUndefined) :
          f \in FinishReasons, u \in Usages}

RequestContents ==
  {StringInput("hi"),
   ContentsInput(<<>>),
   ContentsInput(<<Content("user", <<TextPart("a")>>)>>),
   ContentsInput(<<Content("user", <<InlineDataPart("image/png", "AAAA")>>)>>),
   ContentsInput(<<Content("user", <<TextPart("a")>>),
                   Content("model", <<TextPart("a")>>)>>),
   ContentsInput(<<Content("user", <<TextPart("a")>>),
                   Content("model", <<FunctionCallPart("t1", "runShell", JsObject(CmdLs))>>),
                   Content("user", <<FunctionResponsePart("t1", "runShell", JsObject(OkTrue))>>)>>)}

Operations == {"generateContent", "generateContentStream", "countTokens", "embedContent"}

Call(op, request) == [op |-> op, request |-> request]

Calls ==
  {Call(op, Request("m1", c, mime)) :
     op \in Operations \ {"embedContent"}, c \in RequestContents,
     mime \in {Undefined, ApplicationJson}}
  \cup {Call("embedContent", Request("m1", c, Undefined)) :
          c \in {SingleContent(<<TextPart("a"), TextPart("a")>>), StringInput("hi")}}

Descriptors ==
  {AdapterConfig([m \in {"m1"} |-> TestModel], OpenAIUsagePaths, method,
                 <<Header("Authorization", "Bearer {apiKey}")>>, endpoints) :
     method \in {"response_usage", "estimation"},
     endpoints \in {OpenAIEndpoints, [k \in {"chat"} |-> "/chat/completions"],
                     [k \in {"embedding"} |-> "/embeddings"]}}

RetrySettings ==
  {CfgUndefined,
   CfgObject([k \in {"maxRetries"} |-> CfgNum(0)]),
   CfgObject([k \in {"maxRetries", "timeout"} |->
                IF k = "maxRetries" THEN CfgNum(2) ELSE CfgNum(45000)])}

\* An adapter has been constructed and one of its operations is called.
InitHttp ==
  /\ streamingToolCalls = [a \in Adapters |-> <<>>]
  /\ pc = [s \in Streams |-> "unopened"]
  /\ received = [s \in Streams |-> <<>>]
  /\ yielded = [s \in Streams |-> <<>>]
  /\ log = [a \in Adapters |-> <<>>]
  /\ owner = [s \in Streams |-> "a1"]
  /\ InitNoMessages
  /\ InitNoTools
  /\ InitNoConfigCall
  /\ userConfig \in {UserProviderConfig("sk-plain", <<"m1">>, CfgUndefined, po, NoKeys) :
                       po \in RetrySettings}
  /\ adapterConfig \in Descriptors
  /\ env = NoEnv
  /\ httpCall \in Calls
  /\ fetches = <<>>
  /\ attempts = 0
  /\ httpResult = <<>>
  /\ httpPc = "called"

NextHttp ==
  \/ HttpInvoke
  \/ \E reply \in Replies : HttpSettle(reply)
  \/ StreamStart("s1")
  \/ \E line \in BodyLines : StreamChunk("s1", line, MaxBodyLines)
  \/ \E line \in BodyLines : StreamSkip("s1", line, MaxBodyLines)
  \/ StreamDone("s1")
  \/ StreamEnd("s1")
  \/ StreamError("s1")

SpecHttp == InitHttp /\ [][NextHttp]_vars

----------------------------------------------------------------------------
(* Properties of the network operations                                    *)

EndsWith(s, suffix) ==
  Len(s) >= Len(suffix) /\ SubSeq(s, Len(s) - Len(suffix) + 1, Len(s)) = suffix

\* The request ends in a user content whose last part is a text.
EndsInUserText(c) ==
  /\ c.form = "contents"
  /\ c.list # <<>>
  /\ LET last == c.list[Len(c.list)]
     IN /\ last.role = "user"
        /\ last.parts # <<>>
        /\ last.parts[Len(last.parts)].kind = "text"

LastUserMessageEndsWith(wireMessages, suffix) ==
  \E m \in 1..Len(wireMessages) :
    /\ wireMessages[m].role = "user"
    /\ \A n \in (m + 1)..Len(wireMessages) : wireMessages[n].role # "user"
    /\ EndsWith(wireMessages[m].content, suffix)

(* C11: every wire request that generateContent or generateContentStream   *)
(* builds from a request with responseMimeType 'application/json' (here:   *)
(* one that ends in a user text) has response_format {type:'json_object'}  *)
(* and a last user message whose text ends with the JSON instruction.      *)
C11_JsonModeOnEveryRequest ==
  \A k \in 1..Len(fetches) :
    ( /\ httpCall.op \in {"generateContent", "generateContentStream"}
      /\ httpCall.request.config.responseMimeType = ApplicationJson
      /\ EndsInUserText(httpCall.request.contents) )
    => /\ fetches[k].body.response_format = JsonObjectFormat
       /\ LastUserMessageEndsWith(fetches[k].body.messages, JsonInstruction)

\* The same of generateContent alone.
JsonModeOnGenerateContent ==
  \A k \in 1..Len(fetches) :
    ( /\ httpCall.op = "generateContent"
      /\ httpCall.request.config.responseMimeType = ApplicationJson
      /\ EndsInUserText(httpCall.request.contents) )
    => /\ fetches[k].body.response_format = JsonObjectFormat
       /\ LastUserMessageEndsWith(fetches[k].body.messages, JsonInstruction)

\* The table of the finish reasons.
FinishTable(f) ==
  IF f \in {"stop", "tool_calls"} THEN "STOP"
  ELSE IF f = "length" THEN "MAX_TOKENS"
  ELSE IF f = "content_filter" THEN "SAFETY"
  ELSE "OTHER"

\* The wire chunk a yielded canonical chunk was converted from.
ChunkOf(s, k) == received[s][yielded[s][k].line].chunk

\* The choices of the reply a returned generateContent converted.
RepliedChoices == fetches[Len(fetches)].reply.choices

(* C12 as stated: in streamed chunks and in non-streamed responses alike,  *)
(* every finish_reason other than null is mapped by the table, every value *)
(* outside the four named ones to OTHER.                                   *)
C12_FinishReasonTotalTable ==
  /\ \A s \in Streams : \A k \in 1..Len(yielded[s]) :
       (ChunkOf(s, k).hasChoice /\ ChunkOf(s, k).finish_reason # Undefined)
       => yielded[s][k].finishReason = FinishTable(ChunkOf(s, k).finish_reason)
  /\ (httpPc = "returned" /\ httpCall.op = "generateContent")
     => \A k \in 1..Len(RepliedChoices) :
          RepliedChoices[k].finish_reason # Undefined
          => httpResult.value.candidates[k].finishReason
               = FinishTable(RepliedChoices[k].finish_reason)

(* C12 amended: every non-empty finish_reason is mapped by the table in    *)
(* both paths; an empty-string (or missing) finish_reason is mapped to     *)
(* OTHER in a non-streamed response and to FINISH_REASON_UNSPECIFIED in a  *)
(* streamed chunk.                                                         *)
C12_FinishReasonTableNonEmpty ==
  /\ \A s \in Streams : \A k \in 1..Len(yielded[s]) :
       yielded[s][k].finishReason =
         IF ChunkOf(s, k).hasChoice /\ ChunkOf(s, k).finish_reason \notin {Undefined, ""}
         THEN FinishTable(ChunkOf(s, k).finish_reason)
         ELSE "FINISH_REASON_UNSPECIFIED"
  /\ (httpPc = "returned" /\ httpCall.op = "generateContent")
     => /\ Len(httpResult.value.candidates) = Len(RepliedChoices)
        /\ \A k \in 1..Len(RepliedChoices) :
             httpResult.value.candidates[k].finishReason
               = FinishTable(RepliedChoices[k].finish_reason)

\* A streamed chunk with finish_reason 'tool_calls' was yielded with STOP.
C12_Witness ==
  \E k \in 1..Len(yielded["s1"]) :
    /\ ChunkOf("s1", k).finish_reason = "tool_calls"
    /\ yielded["s1"][k].finishReason = "STOP"
    /\ httpPc = "streaming"

----------------------------------------------------------------------------
(* extractTokenUsage and getNestedValue                                    *)

\* String.prototype.split on separators of one character: the pieces of s
\* from position i on, the piece in progress having started at 'start'.
RECURSIVE SplitFrom(_, _, _, _)
SplitFrom(s, seps, start, i) ==
  IF i > Len(s) THEN <<SubSeq(s, start, Len(s))>>
  ELSE IF SubSeq(s, i, i) \in seps
       THEN <<SubSeq(s, start, i - 1)>> \o SplitFrom(s, seps, i + 1, i + 1)
       ELSE SplitFrom(s, seps, start, i + 1)

Split(s, seps) == SplitFrom(s, seps, 1, 1)

\* String.prototype.includes of one character.
Includes(s, c) == \E i \in 1..Len(s) : SubSeq(s, i, i) = c

\* String.prototype.trim, of spaces.
RECURSIVE Trim(_)
Trim(s) ==
  IF s = "" THEN s
  ELSE IF SubSeq(s, 1, 1) = " " THEN Trim(SubSeq(s, 2, Len(s)))
  ELSE IF SubSeq(s, Len(s), Len(s)) = " " THEN Trim(SubSeq(s, 1, Len(s) - 1))
  ELSE s

\* The reduce of getNestedValue over the keys from the i-th on.  The
\* responses of the model hold objects and numbers, no arrays.
RECURSIVE Walk(_, _, _)
Walk(current, keys, i) ==
  IF i > Len(keys) THEN current
  ELSE Walk(IF CfgTruthy(current) /\ current.t = "object"
            THEN Get(current, keys[i]) ELSE CfgUndefined,
            keys, i + 1)

getNestedValue(obj, path) ==
  Walk(obj, SelectSeq(Split(path, {".", "[", "]"}), LAMBDA k : k # ""), 1)

\* parts.reduce((sum, val) => sum + (val || 0), 0), of numbers.
RECURSIVE SumFrom(_, _)
SumFrom(vals, i) ==
  IF i > Len(vals) THEN 0 ELSE OrZero(vals[i]).n + SumFrom(vals, i + 1)

\* BaseAdapter.extractTokenUsage.
extractTokenUsage(config, response) ==
  IF config.method # "response_usage" THEN CfgNull
  ELSE LET usage == config.usage
           promptTokens == getNestedValue(response, usage.promptTokens)
           completionTokens == getNestedValue(response, usage.completionTokens)
           operands == Split(usage.totalTokens, {"+"})
           totalTokens ==
             IF Includes(usage.totalTokens, "+")
             THEN CfgNum(SumFrom([k \in 1..Len(operands) |->
                                    getNestedValue(response, Trim(operands[k]))], 1))
             ELSE getNestedValue(response, usage.totalTokens)
       IN TokenUsage(OrZero(promptTokens), OrZero(completionTokens),
                     OrZero(totalTokens))

\* The adapter classes: OpenAIAdapter overrides extractTokenUsage, a class
\* that does not (the TestAdapter of the tests) inherits BaseAdapter's.
AdapterClasses == {"OpenAIAdapter", "TestAdapter"}

ExtractTokenUsageOf(class, config, response) ==
  IF class = "OpenAIAdapter"
  THEN OpenAIExtractTokenUsage(Get(response, "usage"))
  ELSE extractTokenUsage(config, response)

----------------------------------------------------------------------------
(* deepMerge                                                               *)

\* sourceValue && typeof sourceValue === 'object' && !Array.isArray(sourceValue)
IsPlainObject(v) == CfgTruthy(v) /\ v.t = "object"

\* { ...target, ...source }: no recursion into nested objects.
deepMergeShallow(target, source) ==
  IF ~CfgTruthy(source) THEN target
  ELSE IF ~CfgTruthy(target) THEN source
  ELSE CfgObject([k \in DOMAIN target.o \cup DOMAIN source.o |->
                    IF k \in DOMAIN source.o THEN source.o[k] ELSE target.o[k]])

RECURSIVE deepMerge(_, _)
RECURSIVE MergeKeys(_, _, _)

\* The for loop of deepMerge over the own keys of source that are left.
MergeKeys(result, source, keys) ==
  IF keys = {} THEN result
  ELSE LET key == CHOOSE k \in keys : TRUE
           sourceValue == source[key]
           targetValue == IF key \in DOMAIN result THEN result[key] ELSE CfgUndefined
           value == IF IsPlainObject(sourceValue) /\ IsPlainObject(targetValue)
                    THEN deepMerge(targetValue, sourceValue)
                    ELSE IF sourceValue.t = "array" THEN CfgArray(sourceValue.a)
                    ELSE sourceValue
       IN MergeKeys([k \in DOMAIN result \cup {key} |->
                       IF k = key THEN value ELSE result[k]],
                    source, keys \ {key})

\* BaseAdapter.deepMerge, of objects, null and undefined.
deepMerge(target, source) ==
  IF ~CfgTruthy(source) THEN target
  ELSE IF ~CfgTruthy(target) THEN source
  ELSE CfgObject(MergeKeys(target.o, source.o, DOMAIN source.o))

----------------------------------------------------------------------------
(* getModelConfig                                                          *)

getModelConfig(descriptor, record, modelId) ==
  LET defaultConfig == IF modelId \in DOMAIN descriptor.defaultModels
                       THEN descriptor.defaultModels[modelId] ELSE CfgUndefined
      userOverride == IF record.modelOverrides.t = "object"
                      THEN Get(record.modelOverrides, modelId) ELSE CfgUndefined
  IN IF ~CfgTruthy(defaultConfig) THEN CfgNull
     ELSE deepMerge(defaultConfig,
                    IF CfgTruthy(userOverride) THEN userOverride ELSE CfgObject(NoKeys))

----------------------------------------------------------------------------
(* getRequestHeaders                                                       *)

StartsWith(s, prefix) == Len(s) >= Len(prefix) /\ SubSeq(s, 1, Len(prefix)) = prefix

\* String.prototype.replace with a string pattern: the first occurrence.
\* The replacements of the model hold none of the patterns $$, $&, $`, $'.
Replace(s, pattern, replacement) ==
  LET i == IndexFrom(s, pattern, 1)
  IN IF i = 0 THEN s
     ELSE SubSeq(s, 1, i - 1) \o replacement \o SubSeq(s, i + Len(pattern), Len(s))

\* process.env[name]
EnvValue(environment, name) ==
  IF name \in DOMAIN environment THEN environment[name] ELSE Undefined

EnvWarning(envVarName) ==
  "Warning: Environment variable '" \o envVarName \o "' not found for API key"

\* The API key after the lookup in the environment.
ResolvedApiKey(apiKey, environment) ==
  IF Truthy(apiKey) /\ StartsWith(apiKey, "$")
  THEN LET envValue == EnvValue(environment, SubSeq(apiKey, 2, Len(apiKey)))
       IN IF Truthy(envValue) THEN envValue ELSE apiKey
  ELSE apiKey

\* Whether the lookup of the API key logs the warning.
WarnsOf(apiKey, environment) ==
  /\ Truthy(apiKey)
  /\ StartsWith(apiKey, "$")
  /\ ~Truthy(EnvValue(environment, SubSeq(apiKey, 2, Len(apiKey))))

\* headers[key] = value of the last of the pairs with that key.
RECURSIVE Assigned(_, _, _)
Assigned(headers, pairs, i) ==
  IF i > Len(pairs) THEN headers
  ELSE Assigned([k \in DOMAIN headers \cup {pairs[i].key} |->
                   IF k = pairs[i].key THEN pairs[i].value ELSE headers[k]],
                pairs, i + 1)

\* Object.assign(headers, customHeaders), of an object of strings.
ObjectAssign(headers, customHeaders) ==
  IF customHeaders.t = "object"
  THEN [k \in DOMAIN headers \cup DOMAIN customHeaders.o |->
          IF k \in DOMAIN customHeaders.o THEN customHeaders.o[k].s ELSE headers[k]]
  ELSE headers

getRequestHeaders(descriptor, record, environment) ==
  LET resolvedApiKey == ResolvedApiKey(record.apiKey, environment)
      required == [k \in 1..Len(descriptor.required) |->
                     Header(descriptor.required[k].key,
                            Replace(descriptor.required[k].value, "{apiKey}",
                                    IF Truthy(resolvedApiKey) THEN resolvedApiKey ELSE ""))]
  IN ObjectAssign(Assigned([k \in {"Content-Type"} |-> "application/json"], required, 1),
                  getConfigValue(record, "customHeaders", CfgObject(NoKeys)))

\* What getRequestHeaders logs: the warning once for every required header.
WarningsOf(descriptor, record, environment) ==
  [k \in 1..Len(descriptor.required) |->
     EnvWarning(SubSeq(record.apiKey, 2, Len(record.apiKey)))]

----------------------------------------------------------------------------
(* Calls of the configuration layer                                        *)

ExtractTokenUsage ==
  /\ cfgPc = "called"
  /\ cfgCall.op = "extractTokenUsage"
  /\ cfgResult' = ExtractTokenUsageOf(cfgCall.class, adapterConfig, cfgCall.response)
  /\ cfgPc' = "returned"
  /\ UNCHANGED <<cfgCall, warnings, streamVars, msgVars, toolVars, adapterVars, httpVars>>

\* Descriptors of providers that report usage under other names.
InputOutputPaths == UsagePaths("usage.input", "usage.output", "usage.input + usage.output")
CachedInputPaths ==
  UsagePaths("usage.input + usage.cached", "usage.output", "usage.total_tokens")
UsagePathsOf == {OpenAIUsagePaths, InputOutputPaths, CachedInputPaths}

\* The token counts a response reports, by field.
UsageFields == {"prompt_tokens", "completion_tokens", "total_tokens", "input", "output", "cached"}
Reported ==
  [k \in UsageFields |->
     CASE k = "prompt_tokens" -> 7
       [] k = "completion_tokens" -> 3
       [] k = "total_tokens" -> 12
       [] k = "input" -> 10
       [] k = "output" -> 5
       [] OTHER -> 2]

\* A response whose usage block has the fields ks.
UsageResponse(ks) ==
  CfgObject([u \in {"usage"} |-> CfgObject([k \in ks |-> CfgNum(Reported[k])])])

InitExtractTokenUsage ==
  /\ \E paths \in UsagePathsOf, method \in {"response_usage", "estimation"} :
       adapterConfig = AdapterConfig([m \in {"m1"} |-> TestModel], paths, method,
                                     <<Header("Authorization", "Bearer {apiKey}")>>,
                                     OpenAIEndpoints)
  /\ userConfig = PlainUserConfig
  /\ env = NoEnv
  /\ \E class \in AdapterClasses, ks \in SUBSET UsageFields, block \in BOOLEAN :
       cfgCall = [op |-> "extractTokenUsage", class |-> class,
                  response |-> IF block THEN UsageResponse(ks) ELSE CfgObject(NoKeys)]
  /\ cfgResult = <<>>
  /\ warnings = <<>>
  /\ cfgPc = "called"

DeepMerge ==
  /\ cfgPc = "called"
  /\ cfgCall.op = "deepMerge"
  /\ cfgResult' = deepMerge(cfgCall.target, cfgCall.source)
  /\ cfgPc' = "returned"
  /\ UNCHANGED <<cfgCall, warnings, streamVars, msgVars, toolVars, adapterVars, httpVars>>

\* A key that an object does not have.
NoProperty == [t |-> "absent"]
\* The object of the keys of f that are not absent.
ObjectOf(f) == CfgObject([k \in {j \in DOMAIN f : f[j] # NoProperty} |-> f[k]])

\* Targets: objects of up to three levels, with numbers and arrays.  A
\* target is an object always: getModelConfig passes a default it has found,
\* deepMerge itself a value it has tested to be an object.
DeepTargets == {ObjectOf(f) : f \in [x : {NoProperty, CfgNum(1), CfgArray(<<1>>)}]}
InnerTargets ==
  {ObjectOf(f) : f \in [a : {NoProperty, CfgNum(1)},
                        b : {NoProperty, CfgNum(2)} \cup DeepTargets]}
TargetValues == {CfgNum(1), CfgArray(<<1, 2, 3>>)} \cup InnerTargets
Targets ==
  {ObjectOf(f) : f \in [A : {NoProperty} \cup TargetValues, B : {NoProperty} \cup TargetValues]}

\* Sources: objects of up to three levels, with numbers, arrays, null and
\* undefined.
DeepSources == {ObjectOf(f) : f \in [x : {NoProperty, CfgNull, CfgArray(<<9>>)},
                                     y : {NoProperty, CfgNum(2)}]}
InnerSources ==
  {ObjectOf(f) : f \in [b : {NoProperty, CfgNum(3), CfgNull} \cup DeepSources,
                        c : {NoProperty, CfgNum(4)}]}
SourceValues == {CfgNum(3), CfgNull, CfgUndefined, CfgArray(<<9>>)} \cup InnerSources
Sources ==
  {ObjectOf(f) : f \in [A : {NoProperty} \cup SourceValues, B : {NoProperty} \cup SourceValues]}
    \cup {CfgNull, CfgUndefined}

InitDeepMerge ==
  /\ InitAdapter
  /\ \E target \in Targets, source \in Sources :
       cfgCall = [op |-> "deepMerge", target |-> target, source |-> source]
  /\ cfgResult = <<>>
  /\ warnings = <<>>
  /\ cfgPc = "called"

GetModelConfig ==
  /\ cfgPc = "called"
  /\ cfgCall.op = "getModelConfig"
  /\ cfgResult' = getModelConfig(adapterConfig, userConfig, cfgCall.modelId)
  /\ cfgPc' = "returned"
  /\ UNCHANGED <<cfgCall, warnings, streamVars, msgVars, toolVars, adapterVars, httpVars>>

\* The descriptor of the tests: the one default model 'test-model'.
TestDescriptor ==
  AdapterConfig([m \in {"test-model"} |-> TestModel], OpenAIUsagePaths, "response_usage",
                <<Header("Authorization", "Bearer {apiKey}")>>, OpenAIEndpoints)

\* Overrides of the flags of a model.
FeatureOverrides ==
  {ObjectOf(f) : f \in [streaming : {NoProperty, CfgBool(FALSE)},
                        functionCalling : {NoProperty, CfgBool(TRUE)},
                        vision : {NoProperty, CfgBool(TRUE)}]}

\* Overrides of a model the descriptor knows.
ModelOverrides ==
  {ObjectOf(f) : f \in [contextWindow : {NoProperty, CfgNum(8192), CfgNull},
                        supportedModalities : {NoProperty, CfgArray(<<"text", "image">>)},
                        features : {NoProperty} \cup FeatureOverrides]}

\* Overrides that describe a model the descriptor does not know.
NewModelOverrides ==
  {ObjectOf([contextWindow |-> CfgNum(8192)]),
   ModelConfig(8192, <<"text", "image">>, Features(TRUE, TRUE, FALSE))}

ModelIds == {"test-model", "new-model", "no-model"}
ModelLists == {<<>>, <<"test-model">>, <<"new-model">>, <<"test-model", "new-model">>}

InitGetModelConfig ==
  /\ adapterConfig = TestDescriptor
  /\ env = NoEnv
  /\ \E models \in ModelLists,
        given \in BOOLEAN,
        known \in {NoProperty} \cup ModelOverrides,
        new \in {NoProperty} \cup NewModelOverrides :
       userConfig = UserProviderConfig("test-key", models,
                      IF given
                      THEN ObjectOf([m \in {"test-model", "new-model"} |->
                                       IF m = "test-model" THEN known ELSE new])
                      ELSE CfgUndefined,
                      CfgUndefined, NoKeys)
  /\ \E modelId \in ModelIds : cfgCall = [op |-> "getModelConfig", modelId |-> modelId]
  /\ cfgResult = <<>>
  /\ warnings = <<>>
  /\ cfgPc = "called"

GetConfigValue ==
  /\ cfgPc = "called"
  /\ cfgCall.op = "getConfigValue"
  /\ cfgResult' = getConfigValue(userConfig, cfgCall.key, cfgCall.defaultValue)
  /\ cfgPc' = "returned"
  /\ UNCHANGED <<cfgCall, warnings, streamVars, msgVars, toolVars, adapterVars, httpVars>>

\* The settings the adapter resolves, each with the default of its call.
SettingKeys == {"timeout", "maxRetries", "customHeaders"}
DefaultOf(key) ==
  CASE key = "timeout" -> CfgNum(30000)
    [] key = "maxRetries" -> CfgNum(0)
    [] OTHER -> CfgObject(NoKeys)

\* What providerOverrides gives for a setting, and what the record itself.
OverrideValues(key) ==
  {NoProperty, CfgUndefined, CfgNull, CfgNum(0)}
    \cup (IF key = "customHeaders"
          THEN {CfgObject([h \in {"X-Org"} |-> CfgStr("o")])}
          ELSE {CfgNum(5000)})
FieldValues(key) ==
  {NoProperty, CfgUndefined, CfgNull, CfgNum(0)}
    \cup (IF key = "customHeaders"
          THEN {CfgObject([h \in {"X-Team"} |-> CfgStr("t")])}
          ELSE {CfgNum(7000)})

InitGetConfigValue ==
  /\ adapterConfig = OpenAIDescriptor
  /\ env = NoEnv
  /\ \E key \in SettingKeys, other \in SettingKeys, given \in BOOLEAN :
       /\ other # key
       /\ \E override \in OverrideValues(key), field \in FieldValues(key),
             else \in {NoProperty, CfgNum(1)} :
            userConfig = UserProviderConfig("sk-plain", <<"m1">>,
                           CfgUndefined,
                           IF given
                           THEN ObjectOf([k \in {key, other} |->
                                            IF k = key THEN override ELSE else])
                           ELSE CfgUndefined,
                           ObjectOf([k \in {key} |-> field]).o)
       /\ cfgCall = [op |-> "getConfigValue", key |-> key, defaultValue |-> DefaultOf(key)]
  /\ cfgResult = <<>>
  /\ warnings = <<>>
  /\ cfgPc = "called"

GetRequestHeaders ==
  /\ cfgPc = "called"
  /\ cfgCall.op = "getRequestHeaders"
  /\ cfgResult' = getRequestHeaders(adapterConfig, userConfig, env)
  /\ warnings' = IF WarnsOf(userConfig.apiKey, env)
                 THEN warnings \o WarningsOf(adapterConfig, userConfig, env)
                 ELSE warnings
  /\ cfgPc' = "returned"
  /\ UNCHANGED <<cfgCall, streamVars, msgVars, toolVars, adapterVars, httpVars>>

ApiKeys == {"sk-plain", "", "$API_KEY", "${API_KEY}", "$"}
Environments == {NoEnv, [k \in {"API_KEY"} |-> "secret"], [k \in {"API_KEY"} |-> ""]}
RequiredHeaders ==
  {<<>>,
   <<Header("Authorization", "Bearer {apiKey}")>>,
   <<Header("x-api-key", "{apiKey}"), Header("anthropic-version", "2023-06-01")>>,
   <<Header("Authorization", "Bearer {apiKey}"), Header("api-key", "{apiKey}")>>}
CustomHeaders ==
  {NoProperty, CfgObject([h \in {"X-Org"} |-> CfgStr("o")]),
   CfgObject([h \in {"Authorization"} |-> CfgStr("Basic abc")])}

InitGetRequestHeaders ==
  /\ \E required \in RequiredHeaders :
       adapterConfig = AdapterConfig([m \in {"m1"} |-> TestModel], OpenAIUsagePaths,
                                     "response_usage", required, OpenAIEndpoints)
  /\ \E apiKey \in ApiKeys, customHeaders \in CustomHeaders, top \in BOOLEAN :
       userConfig = UserProviderConfig(apiKey, <<"m1">>, CfgUndefined,
                      IF top THEN CfgUndefined
                      ELSE ObjectOf([k \in {"customHeaders"} |-> customHeaders]),
                      IF top THEN ObjectOf([k \in {"customHeaders"} |-> customHeaders]).o
                      ELSE NoKeys)
  /\ env \in Environments
  /\ cfgCall = [op |-> "getRequestHeaders"]
  /\ cfgResult = <<>>
  /\ warnings = <<>>
  /\ cfgPc = "called"

InitCfg ==
  /\ InitStreams
  /\ owner = [s \in Streams |-> "a1"]
  /\ InitNoMessages
  /\ InitNoTools
  /\ InitNoHttp
  /\ \/ InitExtractTokenUsage
     \/ InitDeepMerge
     \/ InitGetModelConfig
     \/ InitGetConfigValue
     \/ InitGetRequestHeaders

NextCfg ==
  \/ ExtractTokenUsage
  \/ DeepMerge
  \/ GetModelConfig
  \/ GetConfigValue
  \/ GetRequestHeaders

SpecCfg == InitCfg /\ [][NextCfg]_vars

----------------------------------------------------------------------------
(* Properties of extractTokenUsage                                         *)

\* A path expression evaluated against a response: the sum of its operands,
\* an operand that is missing counting as 0.
Operands(expr) == Split(expr, {"+"})
Evaluate(expr, response) ==
  SumFrom([k \in 1..Len(Operands(expr)) |->
             getNestedValue(response, Trim(Operands(expr)[k]))], 1)

UsageExtracted ==
  /\ cfgPc = "returned"
  /\ cfgCall.op = "extractTokenUsage"
  /\ adapterConfig.method = "response_usage"
  /\ "usage" \in DOMAIN cfgCall.response.o

(* C13: each field of the usage triple extracted from a response is the    *)
(* value of the descriptor's path expression for it, an expression with    *)
(* '+' evaluated as the sum of its operands, missing operands counting 0.  *)
C13_UsageFromDescriptorPaths ==
  UsageExtracted
  => /\ cfgResult # CfgNull
     /\ cfgResult.promptTokens.n = Evaluate(adapterConfig.usage.promptTokens, cfgCall.response)
     /\ cfgResult.completionTokens.n
          = Evaluate(adapterConfig.usage.completionTokens, cfgCall.response)
     /\ cfgResult.totalTokens.n = Evaluate(adapterConfig.usage.totalTokens, cfgCall.response)

\* What holds: the extractTokenUsage that BaseAdapter defines evaluates the
\* totalTokens expression so.
TotalTokensOfBaseAdapter ==
  (UsageExtracted /\ cfgCall.class = "TestAdapter")
  => cfgResult.totalTokens.n = Evaluate(adapterConfig.usage.totalTokens, cfgCall.response)

\* The example: 'usage.input + usage.output' with only usage.input = 10.
OnlyInputReported ==
  /\ UsageExtracted
  /\ adapterConfig.usage = InputOutputPaths
  /\ cfgCall.response = UsageResponse({"input"})

TotalOfOnlyInputIsTen ==
  (OnlyInputReported /\ cfgCall.class = "TestAdapter")
  => cfgResult = TokenUsage(CfgNum(10), CfgNum(0), CfgNum(10))

NoOnlyInputByOpenAIAdapter == ~(OnlyInputReported /\ cfgCall.class = "OpenAIAdapter")

----------------------------------------------------------------------------
(* Properties of deepMerge                                                 *)

\* The reference merge.
RECURSIVE ReferenceMerge(_, _)
ReferenceMerge(target, source) ==
  IF source \in {CfgNull, CfgUndefined} THEN target
  ELSE CfgObject(
         [k \in DOMAIN target.o \cup DOMAIN source.o |->
            IF k \notin DOMAIN source.o THEN target.o[k]
            ELSE IF k \notin DOMAIN target.o THEN source.o[k]
            ELSE IF target.o[k].t = "object" /\ source.o[k].t = "object"
                 THEN ReferenceMerge(target.o[k], source.o[k])
                 ELSE source.o[k]])

Merged == cfgPc = "returned" /\ cfgCall.op = "deepMerge"

(* C14: deepMerge(target, source) is the reference merge: a key of one     *)
(* side only is taken from that side, two non-array objects are merged     *)
(* recursively, an array, a primitive, null or undefined of source         *)
(* replaces the value of target, and an empty, null or undefined source    *)
(* yields the target unchanged.                                            *)
C14_DeepMergeIsReferenceMerge ==
  Merged
  => /\ cfgResult = ReferenceMerge(cfgCall.target, cfgCall.source)
     /\ cfgCall.source \in {CfgObject(NoKeys), CfgNull, CfgUndefined}
        => cfgResult = cfgCall.target
     /\ IsPlainObject(cfgCall.source)
        => \A k \in DOMAIN cfgCall.source.o :
             cfgCall.source.o[k].t # "object" => cfgResult.o[k] = cfgCall.source.o[k]

\* {A: {a:1, b:2}, B: [1,2,3]} merged with {A: {b:3, c:4}, B: [9]} is
\* {A: {a:1, b:3, c:4}, B: [9]}.
C14_Witness ==
  /\ Merged
  /\ cfgCall.target = ObjectOf([A |-> ObjectOf([a |-> CfgNum(1), b |-> CfgNum(2)]),
                                B |-> CfgArray(<<1, 2, 3>>)])
  /\ cfgCall.source = ObjectOf([A |-> ObjectOf([b |-> CfgNum(3), c |-> CfgNum(4)]),
                                B |-> CfgArray(<<9>>)])
  /\ cfgResult = ObjectOf([A |-> ObjectOf([a |-> CfgNum(1), b |-> CfgNum(3),
                                           c |-> CfgNum(4)]),
                           B |-> CfgArray(<<9>>)])

----------------------------------------------------------------------------
(* Properties of getModelConfig                                            *)

Resolved == cfgPc = "returned" /\ cfgCall.op = "getModelConfig"

InSeq(x, seq) == \E k \in 1..Len(seq) : seq[k] = x

\* The override the record gives for a model: an object, without keys when
\* the record gives none.
OverrideOf(record, m) ==
  IF record.modelOverrides.t = "object" /\ m \in DOMAIN record.modelOverrides.o
  THEN record.modelOverrides.o[m] ELSE CfgObject(NoKeys)

\* Every field of the override has the override's value in the config.
CarriesOverride(config, override) ==
  /\ config.t = "object"
  /\ \A k \in DOMAIN override.o :
       /\ k \in DOMAIN config.o
       /\ IF k = "features"
          THEN \A flag \in DOMAIN override.o[k].o :
                 /\ config.o[k].t = "object"
                 /\ flag \in DOMAIN config.o[k].o
                 /\ config.o[k].o[flag] = override.o[k].o[flag]
          ELSE config.o[k] = override.o[k]

\* Every field the override leaves out has the default's value in the config.
KeepsDefault(config, default, override) ==
  /\ config.t = "object"
  /\ \A k \in DOMAIN default.o \ DOMAIN override.o :
       k \in DOMAIN config.o /\ config.o[k] = default.o[k]
  /\ ("features" \in DOMAIN default.o /\ "features" \in DOMAIN override.o)
     => \A flag \in DOMAIN default.o["features"].o \ DOMAIN override.o["features"].o :
          config.o["features"].o[flag] = default.o["features"].o[flag]

(* C15: the resolved config is null exactly when the model id is neither a *)
(* key of defaultModels nor listed in record.models; a model given only by *)
(* record.models and modelOverrides resolves to a config with the values   *)
(* of its override.                                                        *)
C15_NullOnlyForUnknownModel ==
  Resolved
  => /\ (cfgResult = CfgNull)
        <=> ( /\ cfgCall.modelId \notin DOMAIN adapterConfig.defaultModels
              /\ ~InSeq(cfgCall.modelId, userConfig.models) )
     /\ ( /\ cfgCall.modelId \notin DOMAIN adapterConfig.defaultModels
          /\ InSeq(cfgCall.modelId, userConfig.models) )
        => CarriesOverride(cfgResult, OverrideOf(userConfig, cfgCall.modelId))

\* What holds: the config is null exactly when defaultModels has no such key.
NullExactlyWithoutDefault ==
  Resolved
  => ((cfgResult = CfgNull) <=> cfgCall.modelId \notin DOMAIN adapterConfig.defaultModels)

(* C16: for every model id of record.models the resolved config is the     *)
(* field-wise merge of the descriptor default and the override: a field or *)
(* a features flag of the override has the override's value, every other   *)
(* one the default's.                                                      *)
C16_ListedModelIsMergeOfDefaultAndOverride ==
  (Resolved /\ InSeq(cfgCall.modelId, userConfig.models))
  => /\ CarriesOverride(cfgResult, OverrideOf(userConfig, cfgCall.modelId))
     /\ cfgCall.modelId \in DOMAIN adapterConfig.defaultModels
        => KeepsDefault(cfgResult, adapterConfig.defaultModels[cfgCall.modelId],
                        OverrideOf(userConfig, cfgCall.modelId))

\* What holds: the merge, for a model that has a descriptor default.
ModelWithDefaultIsMerge ==
  (Resolved /\ cfgCall.modelId \in DOMAIN adapterConfig.defaultModels)
  => /\ CarriesOverride(cfgResult, OverrideOf(userConfig, cfgCall.modelId))
     /\ KeepsDefault(cfgResult, adapterConfig.defaultModels[cfgCall.modelId],
                     OverrideOf(userConfig, cfgCall.modelId))

\* The override of the tests: contextWindow 8192, functionCalling and vision.
OverrideOfTheTests ==
  /\ Resolved
  /\ cfgCall.modelId = "test-model"
  /\ OverrideOf(userConfig, "test-model")
       = ObjectOf([contextWindow |-> CfgNum(8192),
                   features |-> ObjectOf([functionCalling |-> CfgBool(TRUE),
                                          vision |-> CfgBool(TRUE)])])

ConfigOfTheTests ==
  OverrideOfTheTests
  => cfgResult = ModelConfig(8192, <<"text">>, Features(TRUE, TRUE, TRUE))

NoOverrideOfTheTests == ~OverrideOfTheTests

----------------------------------------------------------------------------
(* Properties of getConfigValue                                            *)

SettingResolved == cfgPc = "returned" /\ cfgCall.op = "getConfigValue"

\* What providerOverrides holds for the key of the call, and what the record.
OverrideGiven ==
  IF userConfig.providerOverrides.t = "object"
  THEN Get(userConfig.providerOverrides, cfgCall.key) ELSE CfgUndefined
FieldGiven ==
  IF cfgCall.key \in DOMAIN userConfig.top THEN userConfig.top[cfgCall.key]
  ELSE CfgUndefined

(* C17: a setting is providerOverrides[key] if that is set, else the       *)
(* record's field of that name if that is set, else the default of the     *)
(* call; an override of 0 is set and is returned as 0.  (Of a value that   *)
(* is null nothing is said here.)                                          *)
C17_SettingByPrecedence ==
  SettingResolved
  => /\ (OverrideGiven \notin {CfgUndefined, CfgNull}) => cfgResult = OverrideGiven
     /\ (OverrideGiven = CfgUndefined /\ FieldGiven \notin {CfgUndefined, CfgNull})
        => cfgResult = FieldGiven
     /\ (OverrideGiven = CfgUndefined /\ FieldGiven = CfgUndefined)
        => cfgResult = cfgCall.defaultValue
     /\ OverrideGiven = CfgNum(0) => cfgResult = CfgNum(0)

\* A timeout override of 0 beside a record field of 7000 and the default
\* 30000 resolves to 0.
C17_Witness ==
  /\ SettingResolved
  /\ cfgCall.key = "timeout"
  /\ cfgCall.defaultValue = CfgNum(30000)
  /\ OverrideGiven = CfgNum(0)
  /\ FieldGiven = CfgNum(7000)
  /\ cfgResult = CfgNum(0)

----------------------------------------------------------------------------
(* Properties of getRequestHeaders                                         *)

HeadersBuilt == cfgPc = "returned" /\ cfgCall.op = "getRequestHeaders"

\* The environment variable that an API key beginning with '$' names.
NamedVariable == SubSeq(userConfig.apiKey, 2, Len(userConfig.apiKey))

\* The required headers that the custom headers do not replace.
OwnHeaders ==
  {k \in 1..Len(adapterConfig.required) :
     /\ adapterConfig.required[k].key
          \notin DOMAIN getConfigValue(userConfig, "customHeaders", CfgObject(NoKeys)).o
     /\ \A j \in (k + 1)..Len(adapterConfig.required) :
          adapterConfig.required[j].key # adapterConfig.required[k].key}

\* Every required header has its template with {apiKey} replaced by key.
HeadersCarry(key) ==
  \A k \in OwnHeaders :
    /\ adapterConfig.required[k].key \in DOMAIN cfgResult
    /\ cfgResult[adapterConfig.required[k].key]
         = Replace(adapterConfig.required[k].value, "{apiKey}", key)

(* C18: with an apiKey that begins with '$', the value of the environment  *)
(* variable it names replaces {apiKey} in the required headers if the      *)
(* variable is set; if it is absent a warning is logged and the empty      *)
(* string replaces {apiKey}.                                               *)
C18_ApiKeyFromEnvironment ==
  (HeadersBuilt /\ StartsWith(userConfig.apiKey, "$"))
  => IF NamedVariable \in DOMAIN env
     THEN HeadersCarry(env[NamedVariable])
     ELSE /\ adapterConfig.required # <<>> => warnings # <<>>
          /\ HeadersCarry("")

\* What holds: a variable with a non-empty value replaces {apiKey}; without
\* one the warning is logged and the apiKey itself, '$' and name, replaces it.
ApiKeyFromEnvironmentOrLiteral ==
  (HeadersBuilt /\ StartsWith(userConfig.apiKey, "$"))
  => IF NamedVariable \in DOMAIN env /\ env[NamedVariable] # ""
     THEN HeadersCarry(env[NamedVariable]) /\ warnings = <<>>
     ELSE /\ Len(warnings) = Len(adapterConfig.required)
          /\ \A k \in 1..Len(warnings) : warnings[k] = EnvWarning(NamedVariable)
          /\ HeadersCarry(userConfig.apiKey)

\* Without the variable API_KEY, a header 'Bearer $API_KEY' was built.
LiteralSent ==
  /\ HeadersBuilt
  /\ env = NoEnv
  /\ userConfig.apiKey = "$API_KEY"
  /\ "Authorization" \in DOMAIN cfgResult
  /\ cfgResult["Authorization"] = "Bearer $API_KEY"

NoLiteralSent == ~LiteralSent

----------------------------------------------------------------------------
(* Properties of the network operations: retries and countTokens           *)

OperationEnded == httpPc \in {"returned", "thrown", "streaming"}

(* C19: nothing is retried: a call of generateContent,                     *)
(* generateContentStream, countTokens or embedContent issues at most one   *)
(* HTTP request, whatever maxRetries is and however the request fails.     *)
C19_AtMostOneRequest ==
  /\ Len(fetches) <= 1
  /\ attempts <= 1
  /\ httpPc = "called" => fetches = <<>>

\* With maxRetries 2, a request that got a 500 was the only one of a call
\* that has thrown.
C19_Witness ==
  /\ httpPc = "thrown"
  /\ MaxRetriesOf(userConfig) = 2
  /\ Len(fetches) = 1
  /\ fetches[1].reply = Status(500)

\* The reply to the request of the call, if it made one.
TheReply == fetches[Len(fetches)].reply

\* The chat request succeeded with a usage block.
RepliedWithUsage ==
  /\ fetches # <<>>
  /\ TheReply.kind = "body"
  /\ TheReply.usage \notin {CfgUndefined, CfgNull}

\* n is the ceiling of len / 4.
IsCeilingOfQuarter(n, len) == 4 * n >= len /\ 4 * (n - 1) < len

\* The prompt token count of the reply, 0 when its usage block names none.
PromptTokensReplied ==
  IF "prompt_tokens" \in DOMAIN TheReply.usage.o
       /\ TheReply.usage.o["prompt_tokens"].t = "number"
  THEN TheReply.usage.o["prompt_tokens"].n ELSE 0

(* C20: countTokens never throws: under 'response_usage', of a chat reply  *)
(* with a usage block it returns that reply's prompt token count; in every *)
(* other case (HTTP error, timeout, unparseable body, no usage block,      *)
(* method 'estimation') it returns the ceiling of a quarter of the length  *)
(* of the JSON text of the contents.                                       *)
C20_CountTokensNeverThrows ==
  httpCall.op = "countTokens"
  => /\ httpPc # "thrown"
     /\ httpPc = "returned"
        => /\ httpResult.kind = "returned"
           /\ IF adapterConfig.method = "response_usage" /\ RepliedWithUsage
              THEN httpResult.value.totalTokens.n = PromptTokensReplied
              ELSE IsCeilingOfQuarter(httpResult.value.totalTokens.n,
                                      Len(StringifyContents(httpCall.request.contents)))

\* countTokens has returned the estimate after its request got a 500.
C20_Witness ==
  /\ httpCall.op = "countTokens"
  /\ httpPc = "returned"
  /\ fetches # <<>>
  /\ TheReply = Status(500)
  /\ httpResult.value.totalTokens.n > 0

\* countTokens has returned the prompt token count 7 of the reply.
CountFromUsage ==
  /\ httpCall.op = "countTokens"
  /\ httpPc = "returned"
  /\ RepliedWithUsage
  /\ httpResult.value = TokenCount(CfgNum(7))

NoCountFromUsage == ~CountFromUsage

----------------------------------------------------------------------------
(* Properties of the errors of generateContent and generateContentStream   *)

\* generateContent or generateContentStream has thrown on a non-2xx reply.
ThrownOnStatus ==
  /\ httpPc = "thrown"
  /\ httpCall.op \in {"generateContent", "generateContentStream"}
  /\ fetches # <<>>
  /\ TheReply.kind = "status"

\* The statuses that the descriptor names as those of a class of errors.
ClassifiedStatuses ==
  {adapterConfig.errorHandling.authErrorStatus,
   adapterConfig.errorHandling.rateLimitStatus,
   adapterConfig.errorHandling.quotaErrorStatus}

(* C21: the error that generateContent or generateContentStream raises on  *)
(* a non-2xx response carries the status and the status text, is not the   *)
(* error of a timeout, and for a status that the descriptor names as       *)
(* authErrorStatus, rateLimitStatus or quotaErrorStatus it is an error of  *)
(* a class of its own, not the generic one.                                *)
C21_HttpErrorClassified ==
  ThrownOnStatus
  => /\ StringIncludes(httpResult.cause.message,
                       ToString(TheReply.status) \o " " \o StatusText(TheReply.status))
     /\ httpResult.cause # Rethrown(httpCall.op, JsError(TimedOut.message))
     /\ TheReply.status \in ClassifiedStatuses => httpResult.cause.name # "Error"

\* What holds: the message carries status and status text, unless the
\* status text reads as a timeout.
StatusInMessage ==
  (ThrownOnStatus /\ ~StringIncludes(LowerCased(StatusText(TheReply.status)), "timeout"))
  => StringIncludes(httpResult.cause.message,
                    "API error: " \o ToString(TheReply.status) \o " "
                      \o StatusText(TheReply.status))

\* A 504 was thrown as the error of a timeout.
GatewayTimeoutAsTimeout ==
  /\ ThrownOnStatus
  /\ TheReply = Status(504)
  /\ httpResult.cause = Rethrown(httpCall.op, JsError(TimedOut.message))

NoGatewayTimeoutAsTimeout == ~GatewayTimeoutAsTimeout

\* A 401 was thrown as an error of the generic class.
UnauthorizedAsGeneric ==
  /\ ThrownOnStatus
  /\ TheReply = Status(401)
  /\ httpResult.cause = JsError("OpenAI API error: API error: 401 Unauthorized")

NoUnauthorizedAsGeneric == ~UnauthorizedAsGeneric

----------------------------------------------------------------------------
(* loadAdapter and the constructor of BaseAdapter                          *)

\* The keys of the adapter registry.
AVAILABLE_ADAPTERS == {"openai", "anthropic"}

AdapterClassOf(adapterType) ==
  IF adapterType = "openai" THEN "OpenAIAdapter" ELSE "AnthropicAdapter"

\* An adapter instance: its class and the two fields its constructor sets.
Adapter(class, adapterType, record, descriptor) ==
  [class |-> class, adapterType |-> adapterType, userConfig |-> record,
   adapterConfig |-> descriptor]

\* The content of a config.json that JSON.parse rejects.
Unparseable == [t |-> "unparseable"]

\* loadAdapterConfig: files maps the adapter types that have a config.json
\* on one of the three paths to its content.
loadAdapterConfig(adapterType, files) ==
  IF adapterType \in DOMAIN files /\ files[adapterType] # Unparseable
  THEN Returned(files[adapterType])
  ELSE Thrown(JsError("Failed to load adapter config for '" \o adapterType \o "'"))

\* loadAdapter that falls back to the OpenAI adapter and its built-in
\* descriptor for a type that is not registered or has no descriptor file.
loadAdapterWithFallback(adapterType, record, modules, files) ==
  IF adapterType \in AVAILABLE_ADAPTERS /\ adapterType \in modules
       /\ loadAdapterConfig(adapterType, files).kind = "returned"
  THEN Returned(Adapter(AdapterClassOf(adapterType), adapterType, record,
                        loadAdapterConfig(adapterType, files).value))
  ELSE Returned(Adapter("OpenAIAdapter", adapterType, record, OpenAIDescriptor))

\* loadAdapter(adapterType, userConfig) with userConfig.adapterType =
\* adapterType, as its caller passes them.  modules: the adapter modules whose
\* import resolves.  A name that the registry inherits from Object.prototype
\* is callable but gives no constructor.
loadAdapter(adapterType, record, modules, files) ==
  IF adapterType \notin AVAILABLE_ADAPTERS
  THEN IF adapterType \in {"toString", "constructor"}
       THEN Thrown([name |-> "TypeError", message |-> "AdapterClass is not a constructor"])
       ELSE Thrown([name |-> "TypeError",
                    message |-> "AVAILABLE_ADAPTERS[adapterType] is not a function"])
  ELSE IF adapterType \notin modules
  THEN Thrown(JsError("Cannot find module './adapters/" \o adapterType \o "/adapter.js'"))
  ELSE LET loaded == loadAdapterConfig(adapterType, files)
       IN IF loaded.kind = "thrown" THEN loaded
          ELSE Returned(Adapter(AdapterClassOf(adapterType), adapterType, record,
                                loaded.value))

----------------------------------------------------------------------------
(* createContentGeneratorConfig and createContentGenerator                 *)

CUSTOM_PROVIDER == "custom-provider"
LOGIN_WITH_GOOGLE == "oauth-personal"
DEFAULT_GEMINI_MODEL == "DEFAULT_GEMINI_MODEL"

\* A persisted provider record.
CustomProviderConfig(name, adapterType, apiKey, models, providerOverrides) ==
  [name |-> name, displayName |-> name, adapterType |-> adapterType,
   baseUrl |-> "https://api.test.com/v1", apiKey |-> apiKey, models |-> models,
   modelOverrides |-> CfgUndefined, providerOverrides |-> providerOverrides]

\* The settings file: the selection and the records.
Settings(currentProvider, currentModel, customProviders) ==
  [currentProvider |-> currentProvider, currentModel |-> currentModel,
   customProviders |-> customProviders]

ContentGeneratorConfig(model, authType, customProviderConfig) ==
  [model |-> model, authType |-> authType, customProviderConfig |-> customProviderConfig]

\* createContentGeneratorConfig; configModel is config.getModel().  Of the
\* auth types the model has the custom provider and the Google login.
createContentGeneratorConfig(configModel, authType, settings) ==
  LET effectiveModel == IF Truthy(configModel) THEN configModel ELSE DEFAULT_GEMINI_MODEL
      providerConfig ==
        IF authType = CUSTOM_PROVIDER /\ Truthy(settings.currentProvider)
             /\ CfgTruthy(settings.customProviders)
        THEN Get(settings.customProviders, settings.currentProvider)
        ELSE CfgUndefined
  IN IF authType = LOGIN_WITH_GOOGLE \/ providerConfig = CfgUndefined
     THEN ContentGeneratorConfig(effectiveModel, authType, CfgUndefined)
     ELSE ContentGeneratorConfig(
            IF Len(providerConfig.models) > 0 THEN providerConfig.models[1]
            ELSE effectiveModel,
            authType, providerConfig)

createCustomProviderContentGenerator(config, modules, files) ==
  LET providerConfig == config.customProviderConfig
  IN IF providerConfig = CfgUndefined
     THEN Thrown(JsError("Custom provider configuration is missing"))
     ELSE loadAdapter(providerConfig.adapterType,
                      UserProviderConfig(providerConfig.apiKey, providerConfig.models,
                                         CfgUndefined, CfgUndefined, NoKeys),
                      modules, files)

\* createContentGenerator: under the Google login the generator is no
\* adapter.
createContentGenerator(config, modules, files) ==
  IF config.authType = CUSTOM_PROVIDER
  THEN createCustomProviderContentGenerator(config, modules, files)
  ELSE Returned([class |-> "LoggingContentGenerator"])

----------------------------------------------------------------------------
(* A session: the generator is created, then used                          *)

\* No adapter has been constructed.
NotConstructed == CfgUndefined

\* The session after the generator was built or refused.
Session(made, config) ==
  IF made.kind = "thrown" THEN made
  ELSE Returned([generator |-> made.value, config |-> config])

\* The fields of the adapter, if the generator that was made is one.
Constructed(made, field, old) ==
  IF made.kind = "returned" /\ made.value.class # "LoggingContentGenerator"
  THEN made.value[field] ELSE old

CreateContentGeneratorConfig ==
  /\ cfgPc = "called"
  /\ cfgCall.op = "createContentGenerator"
  /\ cfgResult' = createContentGeneratorConfig(cfgCall.configModel, cfgCall.authType,
                                               cfgCall.settings)
  /\ cfgPc' = "configured"
  /\ UNCHANGED <<cfgCall, warnings, streamVars, msgVars, toolVars, adapterVars, httpVars>>

CreateContentGenerator ==
  /\ cfgPc = "configured"
  /\ LET made == createContentGenerator(cfgResult, cfgCall.modules, cfgCall.files)
     IN /\ cfgResult' = Session(made, cfgResult)
        /\ cfgPc' = made.kind
        /\ userConfig' = Constructed(made, "userConfig", userConfig)
        /\ adapterConfig' = Constructed(made, "adapterConfig", adapterConfig)
  /\ UNCHANGED <<cfgCall, warnings, env, streamVars, msgVars, toolVars, httpVars>>

LoadAdapter ==
  /\ cfgPc = "called"
  /\ cfgCall.op = "loadAdapter"
  /\ LET made == loadAdapter(cfgCall.adapterType, cfgCall.record, cfgCall.modules,
                             cfgCall.files)
     IN /\ cfgResult' = Session(made, ContentGeneratorConfig("m1", CUSTOM_PROVIDER,
                                                             CfgUndefined))
        /\ cfgPc' = made.kind
        /\ userConfig' = Constructed(made, "userConfig", userConfig)
        /\ adapterConfig' = Constructed(made, "adapterConfig", adapterConfig)
  /\ UNCHANGED <<cfgCall, warnings, env, streamVars, msgVars, toolVars, httpVars>>

\* The chat loop calls generateContent of the generator, with the model of
\* the session.
UseGenerator ==
  /\ cfgPc = "returned"
  /\ cfgResult.value.generator.class = "OpenAIAdapter"
  /\ httpPc = "idle"
  /\ httpCall' = Call("generateContent",
                      Request(cfgResult.value.config.model,
                              ContentsInput(<<Content("user", <<TextPart("a")>>)>>),
                              Undefined))
  /\ httpPc' = "called"
  /\ UNCHANGED <<fetches, attempts, httpResult, streamVars, msgVars, toolVars,
                 adapterVars, cfgVars>>

InitSession ==
  /\ streamingToolCalls = [a \in Adapters |-> <<>>]
  /\ pc = [s \in Streams |-> "unopened"]
  /\ received = [s \in Streams |-> <<>>]
  /\ yielded = [s \in Streams |-> <<>>]
  /\ log = [a \in Adapters |-> <<>>]
  /\ owner = [s \in Streams |-> "a1"]
  /\ InitNoMessages
  /\ InitNoTools
  /\ InitNoHttp
  /\ userConfig = NotConstructed
  /\ adapterConfig = NotConstructed
  /\ env = NoEnv
  /\ \E modules \in {{}, {"openai"}, {"openai", "anthropic"}},
        files \in {[k \in {} |-> Unparseable],
                   [k \in {"openai"} |-> OpenAIDescriptor],
                   [k \in {"openai"} |-> Unparseable],
                   [k \in {"openai", "anthropic", "custom"} |-> OpenAIDescriptor]},
        adapterType \in {"openai", "anthropic", "custom", "toString"},
        providerOverrides \in {CfgUndefined,
                               CfgObject([k \in {"timeout"} |-> CfgNum(5000)]),
                               CfgObject([k \in {"timeout"} |-> CfgNum(0)])},
        models \in {<<>>, <<"m1", "m2">>} :
       LET record == CustomProviderConfig("p1", adapterType, "sk-plain", models,
                                          providerOverrides)
       IN \/ cfgCall = [op |-> "loadAdapter", adapterType |-> adapterType,
                        record |-> UserProviderConfig("sk-plain", models, CfgUndefined,
                                                      providerOverrides, NoKeys),
                        modules |-> modules, files |-> files]
          \/ \E currentProvider \in {Undefined, "p1", "p2"},
                currentModel \in {Undefined, "m1", "m2", "m3"},
                kept \in BOOLEAN,
                configModel \in {Undefined, "m2"},
                authType \in {CUSTOM_PROVIDER, LOGIN_WITH_GOOGLE} :
               cfgCall = [op |-> "createContentGenerator", authType |-> authType,
                          configModel |-> configModel,
                          settings |-> Settings(currentProvider, currentModel,
                                         IF kept
                                         THEN CfgObject([id \in {"p1"} |-> record])
                                         ELSE CfgUndefined),
                          modules |-> modules, files |-> files]
  /\ cfgResult = <<>>
  /\ warnings = <<>>
  /\ cfgPc = "called"

NextSession ==
  \/ CreateContentGeneratorConfig
  \/ CreateContentGenerator
  \/ LoadAdapter
  \/ UseGenerator
  \/ HttpInvoke
  \/ \E reply \in {TimedOut, Status(500),
                   Body(Undefined, <<Choice("hi", <<>>, "stop")>>, CfgUndefined,
                        CfgUndefined)} : HttpSettle(reply)

SpecSession == InitSession /\ [][NextSession]_vars

----------------------------------------------------------------------------
(* Properties of loadAdapter                                               *)

\* The adapter type of the record that the call hands to loadAdapter, if it
\* hands it one.
TypeAsked ==
  IF cfgCall.op = "loadAdapter" THEN cfgCall.adapterType
  ELSE IF cfgCall.authType = CUSTOM_PROVIDER /\ Truthy(cfgCall.settings.currentProvider)
            /\ CfgTruthy(cfgCall.settings.customProviders)
            /\ cfgCall.settings.currentProvider \in DOMAIN cfgCall.settings.customProviders.o
       THEN cfgCall.settings.customProviders.o[cfgCall.settings.currentProvider].adapterType
       ELSE Undefined

\* The record is invalid: its type is not registered, or no descriptor file
\* of that type can be loaded.
InvalidRecord ==
  /\ TypeAsked # Undefined
  /\ \/ TypeAsked \notin AVAILABLE_ADAPTERS
     \/ TypeAsked \notin DOMAIN cfgCall.files
     \/ cfgCall.files[TypeAsked] = Unparseable

(* C22: for an invalid record (adapter type not registered, or no          *)
(* descriptor file loadable) no adapter is ever constructed: the call ends *)
(* with an error, no generator is returned and no request is issued.       *)
C22_NoAdapterForInvalidRecord ==
  InvalidRecord
  => /\ cfgPc # "returned"
     /\ userConfig = NotConstructed
     /\ adapterConfig = NotConstructed
     /\ httpPc = "idle"
     /\ fetches = <<>>

\* loadAdapter has thrown for a type that is not registered although a
\* descriptor file of that name is there.
C22_Witness ==
  /\ cfgPc = "thrown"
  /\ cfgCall.op = "loadAdapter"
  /\ cfgCall.adapterType = "custom"
  /\ "custom" \in DOMAIN cfgCall.files
  /\ cfgResult.cause.name = "TypeError"
  /\ fetches = <<>>

----------------------------------------------------------------------------
(* Properties of the generator of a custom provider                        *)

\* createContentGenerator was called under the custom-provider auth mode and
\* has ended.
CustomProviderEnded ==
  /\ cfgCall.op = "createContentGenerator"
  /\ cfgCall.authType = CUSTOM_PROVIDER
  /\ cfgPc \in {"returned", "thrown"}

\* The record that the persisted selection names, if there is one.
RecordSelected == TypeAsked # Undefined

SelectedRecord == cfgCall.settings.customProviders.o[cfgCall.settings.currentProvider]

\* The persisted selection resolves: the provider is named, its record is
\* there and currentModel is one of its models.
SelectionResolves ==
  /\ RecordSelected
  /\ \E i \in 1..Len(SelectedRecord.models) :
       SelectedRecord.models[i] = cfgCall.settings.currentModel

(* C23: under the custom-provider auth mode the generator is built for the *)
(* persisted selection: its model is settings.currentModel, and a          *)
(* selection that does not resolve (no currentProvider, no record, or      *)
(* currentModel not among the models of the record) is rejected.           *)
C23_PersistedSelectionUsed ==
  CustomProviderEnded
  => IF SelectionResolves
     THEN cfgPc = "returned" => cfgResult.value.config.model = cfgCall.settings.currentModel
     ELSE cfgPc = "thrown"

\* Without a named provider or without its record the call is rejected.
MissingRecordRejected ==
  CustomProviderEnded /\ ~RecordSelected
  => cfgPc = "thrown" /\ cfgResult.cause.message = "Custom provider configuration is missing"

\* The model of the generator is the first model of the record, or the
\* model of the configuration when the record lists none.
ModelIsFirstOfRecord ==
  CustomProviderEnded /\ cfgPc = "returned"
  => cfgResult.value.config.model
       = IF Len(SelectedRecord.models) > 0 THEN SelectedRecord.models[1]
         ELSE IF Truthy(cfgCall.configModel) THEN cfgCall.configModel
         ELSE DEFAULT_GEMINI_MODEL

\* A generator was returned for the model m1 although m2 is selected.
OtherModelThanSelected ==
  /\ CustomProviderEnded
  /\ cfgPc = "returned"
  /\ cfgCall.settings.currentModel = "m2"
  /\ cfgResult.value.config.model = "m1"

NoOtherModelThanSelected == ~OtherModelThanSelected

\* The generator that createContentGenerator returned for a custom provider
\* has issued a request.
CustomProviderRequested ==
  /\ CustomProviderEnded
  /\ cfgPc = "returned"
  /\ fetches # <<>>

\* The timeout that the persisted record resolves to.
PersistedTimeout ==
  getConfigValue([providerOverrides |-> SelectedRecord.providerOverrides, top |-> NoKeys],
                 "timeout", CfgNum(30000))

(* C24: every request of the generator that createContentGenerator returns *)
(* for a custom provider is aborted after the timeout of the persisted     *)
(* record: providerOverrides.timeout when it is set, 30000 otherwise.      *)
C24_AbortAfterPersistedTimeout ==
  CustomProviderRequested
  => \A i \in 1..Len(fetches) : fetches[i].timeout = PersistedTimeout

\* The requests of that generator are aborted after 30000 milliseconds,
\* whatever the record says.
AbortAfterDefaultTimeout ==
  CustomProviderRequested
  => \A i \in 1..Len(fetches) : fetches[i].timeout = CfgNum(30000)

\* An adapter made by loadAdapter from a record with the override does abort
\* after the override.
AbortAfterOverrideOfLoadAdapter ==
  cfgCall.op = "loadAdapter" /\ cfgPc = "returned"
  => \A i \in 1..Len(fetches) :
       fetches[i].timeout = getConfigValue(cfgCall.record, "timeout", CfgNum(30000))

\* A request went out with the default although the record sets 5000.
DefaultDespiteOverride ==
  /\ CustomProviderRequested
  /\ PersistedTimeout = CfgNum(5000)
  /\ fetches[1].timeout = CfgNum(30000)

NoDefaultDespiteOverride == ~DefaultDespiteOverride

----------------------------------------------------------------------------
(* Properties of parseStreamResponse                                       *)

(* C27: on the line 'data: [DONE]' the generator completes without         *)
(* raising, and no canonical chunk is yielded for a line after it.         *)
C27_NothingAfterDone ==
  \A s \in Streams : \A i \in 1..Len(received[s]) :
    received[s][i].kind = "done"
    => /\ pc[s] = "done"
       /\ i = Len(received[s])
       /\ \A k \in 1..Len(yielded[s]) : yielded[s][k].line < i

\* The sentinel came after a chunk that was yielded and while a call sat in
\* the accumulator.
C27_Witness ==
  \E s \in Streams :
    /\ pc[s] = "done"
    /\ Len(received[s]) = 3
    /\ received[s][3].kind = "done"
    /\ Len(yielded[s]) = 2
    /\ streamingToolCalls[owner[s]] # <<>>

(* C28: when reader.read() rejects after tool-call fragments were          *)
(* accumulated, the error leaves the generator and the accumulator is      *)
(* empty once the generator has terminated.                                *)
C28_AccumulatorEmptyAfterReaderError ==
  \A s \in Streams : pc[s] = "failed" => streamingToolCalls[owner[s]] = <<>>

\* The generator has failed and the accumulator still holds the call that
\* the stream had begun.
FragmentsKeptAfterReaderError ==
  \E s \in Streams :
    /\ pc[s] = "failed"
    /\ \E m \in 1..Len(streamingToolCalls[owner[s]]) :
         streamingToolCalls[owner[s]][m].arguments = Frag1

NoFragmentsKeptAfterReaderError == ~FragmentsKeptAfterReaderError

\* A reader error changes nothing but the state of the generator: the
\* accumulator is what the lines before it made of it.
ReaderErrorKeepsAccumulator ==
  [][\A s \in Streams :
       (pc[s] = "running" /\ pc'[s] = "failed")
       => streamingToolCalls' = streamingToolCalls]_vars

\* What a generator yields for a line.
Yield(parts, finishReason) == [parts |-> parts, finishReason |-> finishReason]

\* The accumulator and the chunks yielded after the data lines of a body,
\* from the accumulator acc on.
RECURSIVE Replay(_, _, _)
Replay(lines, acc, out) ==
  IF lines = <<>> THEN [acc |-> acc, out |-> out]
  ELSE IF Head(lines).kind # "data" THEN Replay(Tail(lines), acc, out)
  ELSE Replay(Tail(lines), ChunkAccumulator(acc, Head(lines).chunk),
              Append(out, Yield(ChunkParts(acc, Head(lines).chunk),
                                ChunkFinishReason(Head(lines).chunk))))

\* The lines of the stream without those whose payload does not parse.
WithoutUnparseable(s) == SelectSeq(received[s], LAMBDA l : l.kind # "malformed")

\* The stream is where the same body without its unparseable lines would
\* have brought it.
AsIfUnparseableAbsent ==
  \A s \in SoloStreams :
    LET r == Replay(WithoutUnparseable(s), <<>>, <<>>)
    IN /\ streamingToolCalls[owner[s]] = r.acc
       /\ [k \in 1..Len(yielded[s]) |->
             Yield(yielded[s][k].parts, yielded[s][k].finishReason)] = r.out
       /\ \A k \in 1..Len(yielded[s]) : received[s][yielded[s][k].line].kind = "data"

\* Taking an unparseable line changes nothing but the lines taken.
UnparseableSkipped ==
  \A s \in SoloStreams :
    received'[s] = Append(received[s], MalformedLine)
    => /\ pc'[s] = pc[s]
       /\ yielded' = yielded
       /\ streamingToolCalls' = streamingToolCalls

(* C26: a data line whose payload does not parse is skipped: it yields no  *)
(* chunk, leaves the accumulator as it was and raises nothing, and the     *)
(* later lines are processed as if the line had not been there.            *)
C26_UnparseableLineSkipped == []AsIfUnparseableAbsent /\ [][UnparseableSkipped]_vars

\* An unparseable line came between the two fragments of a call, and the
\* call was emitted with the arguments of both.
C26_Witness ==
  \E s \in SoloStreams :
    /\ Len(received[s]) = 3
    /\ received[s][2] = MalformedLine
    /\ Len(yielded[s]) = 2
    /\ \E m \in 1..Len(yielded[s][2].parts) :
         /\ yielded[s][2].parts[m].kind = "functionCall"
         /\ yielded[s][2].parts[m].args = CmdLs

----------------------------------------------------------------------------
(* Properties of the arguments of tool calls                               *)

\* An arguments text that is empty or no JSON document.
BadArguments(a) == a # Undefined /\ (a = "" \/ ~JSONParses(a))

\* generateContent was answered with a body without error.
AnsweredWithChoices ==
  /\ httpCall.op = "generateContent"
  /\ httpPc \in {"returned", "thrown"}
  /\ fetches # <<>>
  /\ TheReply.kind = "body"
  /\ ~Truthy(TheReply.error)

\* The response has, choice by choice, one call per tool call of the body,
\* those with bad arguments with an empty args.
BadArgumentsInResponse ==
  AnsweredWithChoices
  => /\ httpPc = "returned"
     /\ \A k \in 1..Len(TheReply.choices) :
          LET toolCalls == TheReply.choices[k].tool_calls
              calls == CallParts(httpResult.value.candidates[k].parts)
          IN /\ Len(calls) = Len(toolCalls)
             /\ \A j \in 1..Len(toolCalls) :
                  BadArguments(toolCalls[j].arguments)
                  => calls[j] = FunctionCallPart(toolCalls[j].id, toolCalls[j].name,
                                                 EmptyObject)

\* A chunk with finish_reason has a call with an empty args for every named
\* index whose accumulated arguments are bad.
BadArgumentsInStream ==
  \A a \in Adapters : \A k \in 1..Len(log[a]) :
    (log[a][k].op = "chunk" /\ IsFinish(log[a][k].chunk))
    => LET ds == SegDeltas(log[a], k)
       IN \A i \in NamedIndices(ds) :
            BadArguments(Fragments(ds, i))
            => \E m \in 1..Len(log[a][k].parts) :
                 log[a][k].parts[m] =
                   FunctionCallPart(LastId(ds, i), LastName(ds, i), EmptyObject)

(* C25: arguments of a tool call that are the empty string or no valid     *)
(* JSON raise nothing and do not suppress the call: the response of        *)
(* generateContent and the chunk with finish_reason of a stream have the   *)
(* call with its id, its name and an empty args.                           *)
C25_BadArgumentsGiveEmptyArgs == BadArgumentsInResponse /\ BadArgumentsInStream

\* generateContent has returned the two calls of a body of which one has
\* arguments that do not parse and the other empty ones.
C25_Witness ==
  /\ AnsweredWithChoices
  /\ httpPc = "returned"
  /\ \E k \in 1..Len(TheReply.choices) :
       LET toolCalls == TheReply.choices[k].tool_calls
       IN /\ Len(toolCalls) = 2
          /\ toolCalls[1].arguments = Frag1
          /\ toolCalls[2].arguments = ""
          /\ CallParts(httpResult.value.candidates[k].parts)
               = <<FunctionCallPart("t1", "runShell", EmptyObject),
                   FunctionCallPart("t2", "readFile", EmptyObject)>>

\* The chunk with finish_reason of a stream has emitted the two calls with
\* empty args.
BadArgumentsEmittedInStream ==
  \E k \in 1..Len(yielded["s1"]) :
    CallParts(yielded["s1"][k].parts)
      = <<FunctionCallPart("t1", "runShell", EmptyObject),
          FunctionCallPart("t2", "readFile", EmptyObject)>>

NoBadArgumentsEmittedInStream == ~BadArgumentsEmittedInStream

----------------------------------------------------------------------------
(* Properties of the emission of the accumulated calls                     *)

\* The deltas that stream s took with its lines from..to.
StreamDeltas(s, from, to) == DeltasBetween(OwnLog(s), from, to)

\* The deltas of stream s since the accumulator was last cleared, up to and
\* including line n.
StreamSegment(s, n) == SegDeltas(OwnLog(s), n)

\* The indices whose call the k-th chunk of stream s has emitted.
EmittedIndices(s, k) ==
  IF CallParts(yielded[s][k].parts) = <<>> THEN {}
  ELSE NamedIndices(StreamSegment(s, yielded[s][k].line))

MappedFinishReasons == {"STOP", "MAX_TOKENS", "SAFETY", "OTHER"}

(* C29 as stated: the call of index i is emitted only after every fragment *)
(* of index i of the stream has been received, none arrives after it; and  *)
(* every chunk with tool-call parts has a mapped finish reason.            *)
C29_EmittedAfterAllFragments ==
  \A s \in SoloStreams : \A k \in 1..Len(yielded[s]) :
    /\ \A i \in EmittedIndices(s, k) :
         i \notin SeenIndices(StreamDeltas(s, yielded[s][k].line + 1, Len(received[s])))
    /\ CallParts(yielded[s][k].parts) # <<>>
       => yielded[s][k].finishReason \in MappedFinishReasons

(* C29 amended: tool-call parts are carried only by the chunk of a wire     *)
(* chunk with finish_reason, which has the mapped finish reason; they are  *)
(* the calls of the fragments received since the accumulator was last      *)
(* cleared, up to and including that chunk.  What arrives later for the    *)
(* same index is no part of them: it starts a new call.                    *)
C29_EmittedWithFinishFromSegment ==
  \A s \in SoloStreams : \A k \in 1..Len(yielded[s]) :
    /\ CallParts(yielded[s][k].parts) # <<>>
       => /\ IsFinish(WireChunk(s, k))
          /\ yielded[s][k].finishReason = convertFinishReason(WireChunk(s, k).finish_reason)
          /\ yielded[s][k].finishReason \in MappedFinishReasons
    /\ IsFinish(WireChunk(s, k))
       => /\ CallParts(yielded[s][k].parts)
               = ExpectedCalls(StreamSegment(s, yielded[s][k].line))
          /\ yielded[s][k].line < Len(received[s])
             => StreamSegment(s, yielded[s][k].line + 1)
                  = StreamDeltas(s, yielded[s][k].line + 1, yielded[s][k].line + 1)

\* The call of index 0 was emitted by the second line with what the first
\* fragment gives, and the second fragment of index 0 came with the third.
C29_Witness ==
  \E s \in SoloStreams :
    /\ Len(received[s]) = 3
    /\ Len(yielded[s]) = 3
    /\ CallParts(yielded[s][2].parts) = <<FunctionCallPart("t1", "runShell", EmptyObject)>>
    /\ yielded[s][2].finishReason = "STOP"
    /\ received[s][3].kind = "data"
    /\ received[s][3].chunk.tool_calls = <<Delta(<<>>, Undefined, Undefined, Frag2)>>

\* The calls still under way when stream s took its last line: the named
\* indices of the deltas since the accumulator was last cleared.
CallsUnderWay(s) ==
  NamedIndices(DeltasBetween(OwnLog(s), SegStart(OwnLog(s), Len(received[s]) + 1),
                             Len(received[s])))

(* C30: when the generator has terminated, by the sentinel or by the end   *)
(* of the body, every call whose fragments the stream received has been    *)
(* emitted: none is still under way.                                       *)
C30_AllCallsEmittedAtTermination ==
  \A s \in SoloStreams : pc[s] \in {"done", "ended"} => CallsUnderWay(s) = {}

\* While the generator runs, a call is under way only until the next chunk
\* with finish_reason.
C30_EmittedByFinishChunk ==
  \A s \in SoloStreams :
    (received[s] # <<>> /\ received[s][Len(received[s])].kind = "data"
       /\ IsFinish(received[s][Len(received[s])].chunk))
    => CallsUnderWay(s) = {} /\ streamingToolCalls[owner[s]] = <<>>

\* The stream ended with the sentinel while the call of index 0 was under
\* way, and no chunk has a tool-call part.
CallLostAtDone ==
  \E s \in SoloStreams :
    /\ pc[s] = "done"
    /\ 0 \in CallsUnderWay(s)
    /\ CountCalls(yielded[s]) = 0

NoCallLostAtDone == ~CallLostAtDone

\* The same at the end of the body.
CallLostAtEnd ==
  \E s \in SoloStreams :
    /\ pc[s] = "ended"
    /\ 0 \in CallsUnderWay(s)
    /\ CountCalls(yielded[s]) = 0

NoCallLostAtEnd == ~CallLostAtEnd

----------------------------------------------------------------------------
(* Properties of the plain contents                                        *)

\* Content i has no tool-response part and, if its role is model, no
\* tool-call part.
Plain(i) ==
  /\ ToolResponsesOf(contents.list[i].parts) = <<>>
  /\ ~(contents.list[i].role = "model" /\ ToolCallsOf(contents.list[i].parts) # <<>>)

WireRole(i) == IF contents.list[i].role = "model" THEN "assistant" ELSE "user"

\* The non-empty texts of content i, joined by line feeds.
JoinedText(i) ==
  Join(SelectSeq(TextsOf(contents.list[i].parts), LAMBDA s : s # ""), "\n")

ImagesOf(parts) == SelectSeq(parts, LAMBDA p : p.kind = "inlineData")

\* The wire messages come in the order of the contents they are made of.
OrderKept == \A m, n \in 1..Len(origin) : m < n => origin[m] <= origin[n]

(* C31 as stated: every plain content gives exactly one wire message, with *)
(* role assistant for model and user otherwise, whose content is the       *)
(* joined text of its parts; the messages keep the order of the contents.  *)
C31_PlainContentOneMessage ==
  Translated =>
    /\ \A i \in 1..Len(contents.list) :
         Plain(i) =>
           LET ms == MessagesFrom(i)
           IN /\ Len(ms) = 1
              /\ ms[1].role = WireRole(i)
              /\ ms[1].content = JoinedText(i)
    /\ OrderKept

(* C31 amended: a plain content gives one wire message if it has an image  *)
(* part or a non-empty text, and none otherwise.  The role is assistant    *)
(* for model and user otherwise; the content is the texts joined by line   *)
(* feeds, or with images the serialized list of the text item and the      *)
(* image items; there are no tool_calls.  The order of the contents is     *)
(* kept.                                                                   *)
C31_PlainContentAtMostOneMessage ==
  Translated =>
    /\ \A i \in 1..Len(contents.list) :
         Plain(i) =>
           LET ms == MessagesFrom(i)
               images == ImagesOf(contents.list[i].parts)
           IN IF images = <<>> /\ JoinedText(i) = "" THEN ms = <<>>
              ELSE /\ Len(ms) = 1
                   /\ ms[1].role = WireRole(i)
                   /\ ms[1].tool_calls = <<>>
                   /\ ms[1].content =
                        IF images = <<>> THEN JoinedText(i)
                        ELSE ImageMessageContent(
                               SelectSeq(TextsOf(contents.list[i].parts),
                                         LAMBDA s : s # ""), images)
    /\ OrderKept

\* A user content that has only a tool-call part gave no message, and the
\* model content after it gave the assistant message of its two texts.
C31_Witness ==
  /\ Translated
  /\ Len(contents.list) = 2
  /\ contents.list[1].role = "user"
  /\ Len(contents.list[1].parts) = 1
  /\ contents.list[1].parts[1].kind = "functionCall"
  /\ Len(messages) = 1
  /\ messages[1].role = "assistant"
  /\ messages[1].content = "a\na"
  /\ origin = <<2>>

----------------------------------------------------------------------------
(* The generation parameters of the wire request                           *)

GenerationParameters ==
  {"temperature", "topP", "maxOutputTokens", "stopSequences", "presencePenalty",
   "frequencyPenalty"}

\* The object with the keys of ks, key k with value f[k].
Restrict(f, ks) == [k \in ks |-> f[k]]

\* The key that buildApiRequest writes a generation parameter to.
MappedKey(parameter) ==
  CASE parameter = "maxOutputTokens" -> "maxTokens"
    [] parameter = "stopSequences" -> "stop"
    [] OTHER -> parameter

\* Whether buildApiRequest takes the parameter over.
ParameterTaken(parameter, value) ==
  IF parameter = "stopSequences"
  THEN CfgTruthy(value) /\ value.t = "array" /\ Len(value.a) > 0
  ELSE value # CfgUndefined

\* mappedParams of buildApiRequest, before response_format: generationConfig
\* is request.generationConfig, CfgUndefined when the request has none.
mappedParams(generationConfig) ==
  IF ~CfgTruthy(generationConfig) THEN NoKeys
  ELSE LET taken == {q \in DOMAIN generationConfig.o \cap GenerationParameters :
                       ParameterTaken(q, generationConfig.o[q])}
       IN [k \in {MappedKey(q) : q \in taken} |->
             generationConfig.o[CHOOSE q \in taken : MappedKey(q) = k]]

\* BaseAdapter.mapParameters with the parameterMapping of the descriptor.
mapParameters(params, parameterMapping) ==
  LET taken == {q \in DOMAIN params :
                  /\ q \in DOMAIN parameterMapping
                  /\ parameterMapping[q] # ""
                  /\ params[q] # CfgUndefined}
  IN [k \in {parameterMapping[q] : q \in taken} |->
        params[CHOOSE q \in taken : parameterMapping[q] = k]]

BuildMappedParams ==
  /\ cfgPc = "called"
  /\ cfgCall.op = "buildApiRequest"
  /\ cfgResult' = mappedParams(cfgCall.generationConfig)
  /\ cfgPc' = "returned"
  /\ UNCHANGED <<cfgCall, warnings, streamVars, msgVars, toolVars, adapterVars, httpVars>>

MapParameters ==
  /\ cfgPc = "called"
  /\ cfgCall.op = "mapParameters"
  /\ cfgResult' = mapParameters(cfgCall.generationConfig.o, cfgCall.parameterMapping)
  /\ cfgPc' = "returned"
  /\ UNCHANGED <<cfgCall, warnings, streamVars, msgVars, toolVars, adapterVars, httpVars>>

\* The values a request gives the generation parameters.
ParameterValue ==
  [k \in GenerationParameters |->
     CASE k = "temperature" -> CfgNum(0)
       [] k = "topP" -> CfgNum(1)
       [] k = "maxOutputTokens" -> CfgNum(256)
       [] k = "stopSequences" -> CfgArray(<<"END">>)
       [] k = "presencePenalty" -> CfgNum(0)
       [] OTHER -> CfgNum(2)]

\* The parameterMapping of the README, and that of a descriptor that names
\* all six parameters.
ReadmeMapping ==
  [k \in {"temperature", "topP", "maxOutputTokens"} |->
     CASE k = "topP" -> "top_p"
       [] k = "maxOutputTokens" -> "max_tokens"
       [] OTHER -> k]

FullMapping ==
  [k \in GenerationParameters |->
     CASE k = "topP" -> "top_p"
       [] k = "maxOutputTokens" -> "max_tokens"
       [] k = "stopSequences" -> "stop"
       [] k = "presencePenalty" -> "presence_penalty"
       [] k = "frequencyPenalty" -> "frequency_penalty"
       [] OTHER -> k]

InitParams ==
  /\ InitStreams
  /\ owner = [s \in Streams |-> "a1"]
  /\ InitNoMessages
  /\ InitNoTools
  /\ InitAdapter
  /\ InitNoHttp
  /\ \E present \in SUBSET GenerationParameters,
        op \in {"buildApiRequest", "mapParameters"},
        parameterMapping \in {ReadmeMapping, FullMapping} :
       cfgCall = [op |-> op,
                  generationConfig |-> CfgObject(Restrict(ParameterValue, present)),
                  parameterMapping |-> parameterMapping]
  /\ cfgResult = <<>>
  /\ warnings = <<>>
  /\ cfgPc = "called"

NextParams == BuildMappedParams \/ MapParameters

SpecParams == InitParams /\ [][NextParams]_vars

----------------------------------------------------------------------------
(* Properties of the generation parameters                                 *)

\* The result has, for every parameter of the call, the key that the
\* mapping of the descriptor gives it, with its value, and no other key.
MappedByDescriptor ==
  /\ \A q \in DOMAIN cfgCall.generationConfig.o :
       /\ q \in DOMAIN cfgCall.parameterMapping
       /\ cfgCall.parameterMapping[q] \in DOMAIN cfgResult
       /\ cfgResult[cfgCall.parameterMapping[q]] = cfgCall.generationConfig.o[q]
  /\ \A k \in DOMAIN cfgResult :
       \E q \in DOMAIN cfgCall.generationConfig.o : cfgCall.parameterMapping[q] = k

(* C32: for each generation parameter present in the request the wire      *)
(* request has the key that descriptor.parameterMapping assigns to it,     *)
(* with the value unchanged, and no key for a parameter that is absent.    *)
C32_ParametersMappedByDescriptor ==
  (cfgPc = "returned" /\ cfgCall.op = "buildApiRequest"
     /\ cfgCall.parameterMapping = FullMapping)
  => MappedByDescriptor

\* buildApiRequest writes each parameter to a key of its own choice, with
\* the value unchanged, and writes no key for an absent parameter.
ParametersMappedByFixedKeys ==
  (cfgPc = "returned" /\ cfgCall.op = "buildApiRequest")
  => /\ \A q \in DOMAIN cfgCall.generationConfig.o :
          /\ MappedKey(q) \in DOMAIN cfgResult
          /\ cfgResult[MappedKey(q)] = cfgCall.generationConfig.o[q]
     /\ \A k \in DOMAIN cfgResult :
          \E q \in DOMAIN cfgCall.generationConfig.o : MappedKey(q) = k

\* mapParameters of the base class does map by the descriptor.
MapParametersByDescriptor ==
  (cfgPc = "returned" /\ cfgCall.op = "mapParameters"
     /\ cfgCall.parameterMapping = FullMapping)
  => MappedByDescriptor

\* topP went out under the key topP although the descriptor names top_p.
TopPUnderItsOwnName ==
  /\ cfgPc = "returned"
  /\ cfgCall.op = "buildApiRequest"
  /\ cfgCall.parameterMapping["topP"] = "top_p"
  /\ "topP" \in DOMAIN cfgResult
  /\ "top_p" \notin DOMAIN cfgResult

NoTopPUnderItsOwnName == ~TopPUnderItsOwnName

----------------------------------------------------------------------------
(* Properties of null overrides                                            *)

\* getModelConfig has returned for the model of the descriptor, and the
\* record overrides its contextWindow with null.
ModelFieldNulled ==
  /\ cfgPc = "returned"
  /\ cfgCall.op = "getModelConfig"
  /\ cfgCall.modelId = "test-model"
  /\ userConfig.modelOverrides.t = "object"
  /\ Get(userConfig.modelOverrides, "test-model").t = "object"
  /\ Get(Get(userConfig.modelOverrides, "test-model"), "contextWindow") = CfgNull

\* A model field overridden with null is null, not the value of the
\* descriptor.
NullModelFieldUnsets ==
  ModelFieldNulled
  => /\ Get(cfgResult, "contextWindow") = CfgNull
     /\ Get(cfgResult, "contextWindow") # Get(TestModel, "contextWindow")

\* A provider setting overridden with null is not the default of the call.
NullSettingUnsets ==
  (SettingResolved /\ OverrideGiven = CfgNull) => cfgResult # cfgCall.defaultValue

(* C33: a null override unsets the default: a provider setting whose       *)
(* providerOverrides value is null, and a model field whose modelOverrides *)
(* value is null, do not resolve to the default of the descriptor or of    *)
(* the caller.                                                             *)
C33_NullOverrideUnsetsDefault == NullSettingUnsets /\ NullModelFieldUnsets

\* A setting overridden with null resolves as if there were no override: to
\* the field of the record if that is set, else to the default.
NullSettingAsIfAbsent ==
  (SettingResolved /\ OverrideGiven = CfgNull)
  => cfgResult = IF FieldGiven \notin {CfgUndefined, CfgNull} THEN FieldGiven
                 ELSE cfgCall.defaultValue

\* timeout is overridden with null, the record has no field of that name,
\* and the call gave the default 30000.
NullTimeoutGivesDefault ==
  /\ SettingResolved
  /\ cfgCall.key = "timeout"
  /\ OverrideGiven = CfgNull
  /\ FieldGiven = CfgUndefined
  /\ cfgResult = CfgNum(30000)

NoNullTimeoutGivesDefault == ~NullTimeoutGivesDefault

\* The contextWindow of the model was overridden with null and is null.
ModelFieldUnset == ModelFieldNulled /\ Get(cfgResult, "contextWindow") = CfgNull

NoModelFieldUnset == ~ModelFieldUnset

----------------------------------------------------------------------------
(* Properties of the chunks of a stream                                    *)

----------------------------------------------------------------------------
(* The read loop of parseStreamResponse                                    *)

\* lines.pop() || '' without the line in progress being kept.
CarryNothing(lines) == ""

\* lines.pop() || '': the piece after the last line feed.
Carry(lines) == lines[Len(lines)]

\* The for loop over the complete lines: the payloads handed to JSON.parse,
\* and whether the sentinel was met.
RECURSIVE ProcessLines(_, _)
ProcessLines(lines, parsed) ==
  IF lines = <<>> THEN [parsed |-> parsed, done |-> FALSE]
  ELSE IF StartsWith(Head(lines), "data: ")
  THEN LET data == SubSeq(Head(lines), 7, Len(Head(lines)))
       IN IF data = "[DONE]" THEN [parsed |-> parsed, done |-> TRUE]
          ELSE ProcessLines(Tail(lines), Append(parsed, data))
  ELSE ProcessLines(Tail(lines), parsed)

\* The state of the loop: the buffer, the payloads parsed so far, and the
\* number of reads taken.
Reading(buffer, parsed, taken) == [buffer |-> buffer, parsed |-> parsed, taken |-> taken]

\* reader.read() gives the next value: one turn of the while loop.
ReadValue ==
  /\ cfgPc = "called"
  /\ cfgCall.op = "parseStreamResponse"
  /\ cfgResult.taken < Len(cfgCall.reads)
  /\ LET lines == Split(cfgResult.buffer \o cfgCall.reads[cfgResult.taken + 1], {"\n"})
         r == ProcessLines(SubSeq(lines, 1, Len(lines) - 1), cfgResult.parsed)
     IN /\ cfgResult' = Reading(Carry(lines), r.parsed, cfgResult.taken + 1)
        /\ cfgPc' = IF r.done THEN "returned" ELSE "called"
  /\ UNCHANGED <<cfgCall, warnings, streamVars, msgVars, toolVars, adapterVars, httpVars>>

\* reader.read() reports the end of the body.
ReadEnd ==
  /\ cfgPc = "called"
  /\ cfgCall.op = "parseStreamResponse"
  /\ cfgResult.taken = Len(cfgCall.reads)
  /\ cfgPc' = "returned"
  /\ UNCHANGED <<cfgCall, cfgResult, warnings, streamVars, msgVars, toolVars, adapterVars,
                 httpVars>>

\* The bodies: two lines; a blank line and lines after the sentinel; a last
\* line without line feed.
Bodies ==
  {"data: 1\ndata: 2\n",
   "data: 1\n\ndata: [DONE]\ndata: 2\n",
   "data: 1\ndata: 2"}

\* The pieces of body between the cuts.
Pieces(body, cuts) ==
  [k \in 1..(Len(cuts) + 1) |->
     SubSeq(body, (IF k = 1 THEN 0 ELSE cuts[k - 1]) + 1,
            IF k > Len(cuts) THEN Len(body) ELSE cuts[k])]

\* A body arrives in at most MaxReads reads, cut anywhere.
InitRead ==
  /\ InitStreams
  /\ owner = [s \in Streams |-> "a1"]
  /\ InitNoMessages
  /\ InitNoTools
  /\ InitAdapter
  /\ InitNoHttp
  /\ \E body \in Bodies, n \in 0..(MaxReads - 1) :
       \E cuts \in [1..n -> 0..Len(body)] :
         /\ \A k \in 1..(n - 1) : cuts[k] <= cuts[k + 1]
         /\ cfgCall = [op |-> "parseStreamResponse", reads |-> Pieces(body, cuts)]
  /\ cfgResult = Reading("", <<>>, 0)
  /\ warnings = <<>>
  /\ cfgPc = "called"

NextRead == ReadValue \/ ReadEnd

SpecRead == InitRead /\ [][NextRead]_vars

----------------------------------------------------------------------------
(* Properties of the read loop                                             *)

RECURSIVE Concatenation(_, _)
Concatenation(reads, n) ==
  IF n = 0 THEN "" ELSE Concatenation(reads, n - 1) \o reads[n]

\* The payloads of the data lines that text holds in full, up to the
\* sentinel.
PayloadsOf(text) ==
  LET lines == Split(text, {"\n"})
  IN ProcessLines(SubSeq(lines, 1, Len(lines) - 1), <<>>).parsed

(* C35: what a stream processes depends only on the concatenation of the   *)
(* reads, not on where the body is cut: after any number of reads the      *)
(* payloads parsed are those of the complete lines of the text read so     *)
(* far, each once and whole, and at the end those of the body.             *)
C35_IndependentOfReadBoundaries ==
  cfgCall.op = "parseStreamResponse"
  => /\ cfgResult.parsed = PayloadsOf(Concatenation(cfgCall.reads, cfgResult.taken))
     /\ cfgPc = "returned"
        => cfgResult.parsed = PayloadsOf(Concatenation(cfgCall.reads, Len(cfgCall.reads)))

\* The body came in three reads that cut both of its lines, and both
\* payloads were parsed, once each.
C35_Witness ==
  /\ cfgPc = "returned"
  /\ cfgCall.reads = <<"data", ": 1\ndata: ", "2\n">>
  /\ cfgResult.parsed = <<"1", "2">>

----------------------------------------------------------------------------
(* Properties of the contents with tool responses                          *)

(* C36: a content with at least one tool-response part gives tool messages *)
(* only, one per tool-response part; its text, image and tool-call parts   *)
(* give no wire message.                                                   *)
C36_ToolResponsesTakePrecedence ==
  Translated =>
    \A i \in 1..Len(contents.list) :
      ToolResponsesOf(contents.list[i].parts) # <<>>
      => LET ms == MessagesFrom(i)
         IN /\ Len(ms) = Len(ToolResponsesOf(contents.list[i].parts))
            /\ \A m \in 1..Len(ms) :
                 /\ ms[m].role = "tool"
                 /\ ms[m].tool_calls = <<>>
                 /\ ms[m] = ToolMessageOf(ToolResponsesOf(contents.list[i].parts)[m])

\* A model content with a text, a tool call and a tool response gave one
\* message, the tool message.
C36_Witness ==
  /\ Translated
  /\ Len(contents.list) = 1
  /\ contents.list[1].role = "model"
  /\ Len(contents.list[1].parts) = 3
  /\ TextsOf(contents.list[1].parts) # <<>>
  /\ ToolCallsOf(contents.list[1].parts) # <<>>
  /\ Len(ToolResponsesOf(contents.list[1].parts)) = 1
  /\ Len(messages) = 1
  /\ messages[1].role = "tool"

----------------------------------------------------------------------------
(* Repeated calls with one request object                                  *)

MaxCalls == 2   \* calls the caller makes with its request object at most

JsonCalls ==
  {Call(op, Request("m1", c, mime)) :
     op \in {"generateContent", "countTokens"}, c \in RequestContents,
     mime \in {Undefined, ApplicationJson}}

JsonReplies ==
  {Rejected, TimedOut, Status(500), MalformedBody,
   Body(Undefined, <<Choice("hi", <<>>, "stop")>>, CfgUndefined, CfgUndefined)}

\* The caller calls the operation once more, with the request object of its
\* previous call.
HttpAgain ==
  /\ httpPc \in {"returned", "thrown"}
  /\ Len(fetches) < MaxCalls
  /\ httpPc' = "called"
  /\ httpResult' = <<>>
  /\ attempts' = 0
  /\ UNCHANGED <<httpCall, fetches, streamVars, msgVars, toolVars, adapterVars, cfgVars>>

InitJson ==
  /\ streamingToolCalls = [a \in Adapters |-> <<>>]
  /\ pc = [s \in Streams |-> "unopened"]
  /\ received = [s \in Streams |-> <<>>]
  /\ yielded = [s \in Streams |-> <<>>]
  /\ log = [a \in Adapters |-> <<>>]
  /\ owner = [s \in Streams |-> "a1"]
  /\ InitNoMessages
  /\ InitNoTools
  /\ InitNoConfigCall
  /\ userConfig = UserProviderConfig("sk-plain", <<"m1">>, CfgUndefined, CfgUndefined, NoKeys)
  /\ adapterConfig \in Descriptors
  /\ env = NoEnv
  /\ httpCall \in JsonCalls
  /\ fetches = <<>>
  /\ attempts = 0
  /\ httpResult = <<>>
  /\ httpPc = "called"

NextJson ==
  \/ HttpInvoke
  \/ \E reply \in JsonReplies : HttpSettle(reply)
  \/ HttpAgain

SpecJson == InitJson /\ [][NextJson]_vars

JsonRequested ==
  /\ httpCall.op = "generateContent"
  /\ httpCall.request.config.responseMimeType = ApplicationJson

\* No step of a call changes the request the caller passed.
RequestKept == httpCall' = httpCall

\* Every call with the request sent the body the first call sent.
SameBodyEachCall ==
  \A k \in 1..Len(fetches) : fetches[k].body = fetches[1].body

----------------------------------------------------------------------------
(* The stream generator and the lock of its reader                         *)

MaxLockLines == 3   \* lines of a body at most

LineKinds == {"data", "malformed", "blank", "done"}

\* Where the generator of parseStreamResponse stands ('start': created and
\* not yet run, 'read': in the while loop, 'yield': suspended at its yield,
\* 'closed'), the line it takes next, how often the lock of the reader was
\* taken (getReader) and released (releaseLock), and how it was closed.
Generator(at, next, acquired, released, path) ==
  [at |-> at, next |-> next, acquired |-> acquired, released |-> released, path |-> path]

\* The finally block spared when the consumer returns the generator.
FinallyButOnReturn(g, path) ==
  [g EXCEPT !.at = "closed", !.path = path,
            !.released = IF path = "abandoned" THEN @ ELSE @ + 1]

\* finally { reader.releaseLock(); }: the try block is left, however.
Finally(g, path) ==
  [g EXCEPT !.at = "closed", !.released = @ + 1, !.path = path]

\* The first next(): without a body the generator throws before its try
\* block; with one it takes the reader and enters the loop.
GenStart ==
  /\ cfgPc = "generator"
  /\ cfgResult.at = "start"
  /\ cfgResult' = IF cfgCall.hasBody
                  THEN [cfgResult EXCEPT !.at = "read", !.acquired = @ + 1]
                  ELSE [cfgResult EXCEPT !.at = "closed", !.path = "nobody"]
  /\ UNCHANGED <<cfgCall, warnings, cfgPc, streamVars, msgVars, toolVars, adapterVars,
                 httpVars>>

\* The next line of the body: a data line suspends the generator at its
\* yield, the sentinel returns, any other line is passed over.
GenLine ==
  /\ cfgPc = "generator"
  /\ cfgResult.at = "read"
  /\ cfgResult.next <= Len(cfgCall.body)
  /\ LET kind == cfgCall.body[cfgResult.next]
         g == [cfgResult EXCEPT !.next = @ + 1]
     IN /\ cfgResult' = CASE kind = "data" -> [g EXCEPT !.at = "yield"]
                          [] kind = "done" -> Finally(g, "done")
                          [] OTHER -> g
        /\ warnings' = IF kind = "malformed"
                       THEN Append(warnings, "Failed to parse streaming response:")
                       ELSE warnings
  /\ UNCHANGED <<cfgCall, cfgPc, streamVars, msgVars, toolVars, adapterVars, httpVars>>

\* reader.read() reports the end of the body: break.
GenReadEnd ==
  /\ cfgPc = "generator"
  /\ cfgResult.at = "read"
  /\ cfgResult.next > Len(cfgCall.body)
  /\ cfgResult' = Finally(cfgResult, "end")
  /\ UNCHANGED <<cfgCall, warnings, cfgPc, streamVars, msgVars, toolVars, adapterVars,
                 httpVars>>

\* reader.read() rejects: the error leaves the try block.
GenReadError ==
  /\ cfgPc = "generator"
  /\ cfgResult.at = "read"
  /\ cfgResult' = Finally(cfgResult, "error")
  /\ UNCHANGED <<cfgCall, warnings, cfgPc, streamVars, msgVars, toolVars, adapterVars,
                 httpVars>>

\* The consumer asks for the next chunk.
GenResume ==
  /\ cfgPc = "generator"
  /\ cfgResult.at = "yield"
  /\ cfgResult' = [cfgResult EXCEPT !.at = "read"]
  /\ UNCHANGED <<cfgCall, warnings, cfgPc, streamVars, msgVars, toolVars, adapterVars,
                 httpVars>>

\* The consumer throws into the generator: the yield stands in the try block
\* of JSON.parse, whose catch block warns, and the loop goes on.
GenThrow ==
  /\ cfgPc = "generator"
  /\ cfgResult.at = "yield"
  /\ cfgResult' = [cfgResult EXCEPT !.at = "read"]
  /\ warnings' = Append(warnings, "Failed to parse streaming response:")
  /\ UNCHANGED <<cfgCall, cfgPc, streamVars, msgVars, toolVars, adapterVars, httpVars>>

\* The consumer returns the generator (leaving its for await loop does): at
\* the yield the finally block runs; a generator that never ran is closed
\* without running any of its body.
GenReturn ==
  /\ cfgPc = "generator"
  /\ cfgResult.at \in {"start", "yield"}
  /\ cfgResult' = IF cfgResult.at = "yield"
                  THEN Finally(cfgResult, "abandoned")
                  ELSE [cfgResult EXCEPT !.at = "closed", !.path = "unstarted"]
  /\ UNCHANGED <<cfgCall, warnings, cfgPc, streamVars, msgVars, toolVars, adapterVars,
                 httpVars>>

InitLock ==
  /\ InitStreams
  /\ owner = [s \in Streams |-> "a1"]
  /\ InitNoMessages
  /\ InitNoTools
  /\ InitAdapter
  /\ InitNoHttp
  /\ \E n \in 0..MaxLockLines, hasBody \in BOOLEAN :
       \E body \in [1..n -> LineKinds] :
         /\ ~hasBody => n = 0
         /\ cfgCall = [op |-> "parseStreamResponse", hasBody |-> hasBody, body |-> body]
  /\ cfgResult = Generator("start", 1, 0, 0, "open")
  /\ warnings = <<>>
  /\ cfgPc = "generator"

NextLock ==
  \/ GenStart
  \/ GenLine
  \/ GenReadEnd
  \/ GenReadError
  \/ GenResume
  \/ GenThrow
  \/ GenReturn

SpecLock == InitLock /\ [][NextLock]_vars

\* The ways the generator ends once it has its reader.
TerminationPaths == {"end", "done", "error", "abandoned"}

(* C38: the lock of the reader is released exactly once on every way the   *)
(* generator ends (end of body, sentinel, reader error, the consumer       *)
(* returning it early), and not before it ends.                            *)
C38_LockReleasedOnceAtTermination ==
  /\ cfgResult.released <= cfgResult.acquired
  /\ cfgResult.acquired <= 1
  /\ cfgResult.at # "closed" => cfgResult.released = 0
  /\ cfgResult.at = "closed" /\ cfgResult.acquired = 1
     => cfgResult.released = 1 /\ cfgResult.path \in TerminationPaths
  /\ cfgResult.path \in TerminationPaths
     => cfgResult.at = "closed" /\ cfgResult.released = 1

\* The consumer returned the generator at its first chunk, with lines of the
\* body still unread: the lock was released.
C38_Witness ==
  /\ cfgResult.path = "abandoned"
  /\ cfgResult.next <= Len(cfgCall.body)
  /\ cfgResult.acquired = 1
  /\ cfgResult.released = 1

----------------------------------------------------------------------------
(* The custom-provider configuration flow and its form                     *)

MaxModels == 2   \* models in the form at most

ProviderIds == {"p1", "p2"}

\* The models of the providers in the settings.
ModelCount(provider) == IF provider = "p1" THEN 1 ELSE 2

Keys == {"escape", "y", "n", "ctrl+r", "ctrl+a", "tab", "x"}

\* The state of CustomProviderFlow (step, selectedProvider,
\* selectedAdapterType) and of the CustomProviderConfigForm it shows
\* (the number of formData.models, whether currentField is a field of a
\* model, confirmDelete), with the key last pressed and what it called:
\* the form's onCancel, the Escape branch of the flow for the step
\* 'config', the flow's onCancel and onDelete.
Flow(step, selectedProvider, selectedAdapterType) ==
  [step |-> step, selectedProvider |-> selectedProvider,
   selectedAdapterType |-> selectedAdapterType,
   models |-> 1, field |-> "name", confirmDelete |-> "none",
   key |-> "none", formCancelled |-> FALSE, flowCancelled |-> FALSE,
   deleted |-> {}, closed |-> FALSE]

\* The form as it is mounted: formData from initialConfig or the defaults,
\* at least one model.
Mounted(f) ==
  [f EXCEPT !.models = IF f.selectedProvider # "null"
                       THEN ModelCount(f.selectedProvider) ELSE 1,
            !.field = "name", !.confirmDelete = "none"]

\* The form belongs to the step 'config': any other step shows none.
Rendered(pre, f) ==
  IF f.step # "config" THEN [f EXCEPT !.models = 1, !.field = "name",
                                      !.confirmDelete = "none"]
  ELSE IF pre.step # "config" THEN Mounted(f)
  ELSE f

\* onCancel as the flow passes it to the form; it reads the selectedProvider
\* of the render it was made in.
FormOnCancel(pre, f) ==
  IF pre.selectedProvider # "null"
  THEN [f EXCEPT !.step = "list", !.selectedProvider = "null", !.formCancelled = TRUE]
  ELSE [f EXCEPT !.step = "adapter_selection", !.formCancelled = TRUE]

\* onDelete as the flow passes it to the form.
FormOnDelete(pre, f) ==
  [f EXCEPT !.deleted = @ \cup {pre.selectedProvider},
            !.step = "list", !.selectedProvider = "null"]

\* The useInput handler of the form.
FormInput(pre, key) ==
  IF pre.confirmDelete # "none"
  THEN CASE key \in {"escape", "n"} -> [pre EXCEPT !.confirmDelete = "none"]
         [] key = "y" /\ pre.confirmDelete = "provider" ->
              IF pre.selectedProvider # "null"
              THEN FormOnDelete(pre, pre) ELSE FormOnCancel(pre, pre)
         [] key = "y" /\ pre.confirmDelete = "model" ->
              [pre EXCEPT !.models = @ - 1, !.confirmDelete = "none", !.field = "name"]
         [] OTHER -> pre
  ELSE CASE key = "escape" -> FormOnCancel(pre, pre)
         [] key = "tab" ->
              [pre EXCEPT !.field = IF @ = "name" /\ pre.models > 0
                                    THEN "model" ELSE "name"]
         [] key = "ctrl+a" ->
              IF pre.models < MaxModels THEN [pre EXCEPT !.models = @ + 1] ELSE pre
         [] key = "ctrl+r" ->
              IF pre.models = 0
              THEN IF pre.selectedProvider # "null"
                   THEN [pre EXCEPT !.confirmDelete = "provider"]
                   ELSE FormOnCancel(pre, pre)
              ELSE IF pre.field = "model" \/ pre.models = 1
              THEN [pre EXCEPT !.confirmDelete = "model"]
              ELSE [pre EXCEPT !.confirmDelete = "provider"]
         [] OTHER -> pre

\* The useInput handler of the flow; it reads the step and the
\* selectedProvider of the render it was made in.
FlowInput(pre, f, key) ==
  IF key # "escape" THEN f
  ELSE IF pre.step = "config"
  THEN IF pre.selectedProvider # "null"
       THEN [f EXCEPT !.step = "list", !.selectedProvider = "null", !.flowCancelled = TRUE]
       ELSE [f EXCEPT !.step = "adapter_selection", !.flowCancelled = TRUE]
  ELSE IF pre.step = "adapter_selection"
  THEN [f EXCEPT !.step = "list"]
  ELSE [f EXCEPT !.closed = TRUE]

\* What a key press starts from.
Pressed(f, key) == [f EXCEPT !.key = key, !.formCancelled = FALSE, !.flowCancelled = FALSE]

FlowVars == <<cfgCall, warnings, cfgPc, streamVars, msgVars, toolVars, adapterVars, httpVars>>

\* A key is pressed: every useInput handler mounted is called with it, the
\* form's (when the step is 'config') and the flow's.
PressKey(key) ==
  /\ cfgPc = "flow"
  /\ ~cfgResult.closed
  /\ LET pre == Pressed(cfgResult, key)
     IN cfgResult' = Rendered(pre,
          FlowInput(pre, IF pre.step = "config" THEN FormInput(pre, key) ELSE pre, key))
  /\ UNCHANGED FlowVars

\* onSelect of the provider list with an existing provider.
SelectProvider(provider) ==
  /\ cfgPc = "flow"
  /\ ~cfgResult.closed
  /\ cfgResult.step = "list"
  /\ provider \notin cfgResult.deleted
  /\ LET pre == Pressed(cfgResult, "none")
     IN cfgResult' = Rendered(pre, [pre EXCEPT !.selectedProvider = provider,
                                                !.step = "config"])
  /\ UNCHANGED FlowVars

\* onSelect of the provider list with 'Add New Provider...'.
SelectAddNew ==
  /\ cfgPc = "flow"
  /\ ~cfgResult.closed
  /\ cfgResult.step = "list"
  /\ LET pre == Pressed(cfgResult, "none")
     IN cfgResult' = [pre EXCEPT !.selectedProvider = "null", !.step = "adapter_selection"]
  /\ UNCHANGED FlowVars

\* onSelect of the adapter list.
SelectAdapter(adapterType) ==
  /\ cfgPc = "flow"
  /\ ~cfgResult.closed
  /\ cfgResult.step = "adapter_selection"
  /\ LET pre == Pressed(cfgResult, "none")
     IN cfgResult' = Rendered(pre, [pre EXCEPT !.selectedAdapterType = adapterType,
                                                !.step = "config"])
  /\ UNCHANGED FlowVars

InitFlow ==
  /\ InitStreams
  /\ owner = [s \in Streams |-> "a1"]
  /\ InitNoMessages
  /\ InitNoTools
  /\ InitAdapter
  /\ InitNoHttp
  /\ cfgCall = [op |-> "CustomProviderFlow", customProviders |-> ProviderIds]
  /\ cfgResult = Flow("list", "null", "undefined")
  /\ warnings = <<>>
  /\ cfgPc = "flow"

NextFlow ==
  \/ \E key \in Keys : PressKey(key)
  \/ \E provider \in ProviderIds : SelectProvider(provider)
  \/ SelectAddNew
  \/ \E adapterType \in {"openai", "anthropic"} : SelectAdapter(adapterType)

SpecFlow == InitFlow /\ [][NextFlow]_vars

\* Escape is pressed while the form shows a delete confirmation.
EscapeAtConfirmation ==
  /\ cfgResult.step = "config"
  /\ cfgResult.confirmDelete # "none"
  /\ cfgResult'.key = "escape"

(* C39: Escape pressed at a delete confirmation only dismisses it: the     *)
(* flow stays on the step 'config' with the same selected provider, and    *)
(* neither the flow's nor the form's cancel transition fires.              *)
C39_EscapeOnlyDismissesConfirmation ==
  [][EscapeAtConfirmation =>
       /\ cfgResult'.step = "config"
       /\ cfgResult'.selectedProvider = cfgResult.selectedProvider
       /\ ~cfgResult'.formCancelled
       /\ ~cfgResult'.flowCancelled]_vars

\* The form's share: its handler dismisses the confirmation and does not
\* call onCancel.
FormOnlyDismisses ==
  [][EscapeAtConfirmation => ~cfgResult'.formCancelled]_vars

\* The flow's share: its Escape branch fires at every Escape on the step
\* 'config', confirmation or not.
FlowCancelsAtEveryEscape ==
  [][cfgResult.step = "config" /\ cfgResult'.key = "escape"
       => cfgResult'.flowCancelled /\ cfgResult'.step # "config"]_vars

----------------------------------------------------------------------------
(* The update handler                                                      *)

MaxEvents == 4   \* events emitted on updateEventEmitter at most

UpdateEvents == {"update-received", "update-failed", "update-success", "update-info"}

\* The listeners of setUpdateHandler on updateEventEmitter (registered),
\* its successfullyInstalled, the 60-second timers set and not yet fired,
\* the calls of addItem and of setUpdateInfo made so far, the events
\* emitted, and whether the cleanup function has been called.
Handler(registered, successfullyInstalled, timers, addItem, setUpdateInfo, emitted, cleaned) ==
  [registered |-> registered, successfullyInstalled |-> successfullyInstalled,
   timers |-> timers, addItem |-> addItem, setUpdateInfo |-> setUpdateInfo,
   emitted |-> emitted, cleaned |-> cleaned]

\* The listener of each event.
handleUpdateRecieved(h) ==
  [h EXCEPT !.setUpdateInfo = @ + 1, !.timers = @ + 1]

handleUpdateFailed(h) ==
  [h EXCEPT !.setUpdateInfo = @ + 1, !.addItem = @ + 1]

handleUpdateSuccess(h) ==
  [h EXCEPT !.successfullyInstalled = TRUE, !.setUpdateInfo = @ + 1, !.addItem = @ + 1]

handleUpdateInfo(h) ==
  [h EXCEPT !.addItem = @ + 1]

\* The callback of setTimeout in handleUpdateRecieved.
TimerCallback(h) ==
  [h EXCEPT !.addItem = IF ~h.successfullyInstalled THEN @ + 1 ELSE @,
            !.setUpdateInfo = @ + 1,
            !.timers = @ - 1]

UpdateVars == <<cfgCall, warnings, cfgPc, streamVars, msgVars, toolVars, adapterVars, httpVars>>

\* An event is emitted: its listener runs if it is still registered.
Emit(event) ==
  /\ cfgPc = "update"
  /\ cfgResult.emitted < MaxEvents
  /\ LET h == [cfgResult EXCEPT !.emitted = @ + 1]
     IN cfgResult' =
          IF ~h.registered THEN h
          ELSE CASE event = "update-received" -> handleUpdateRecieved(h)
                 [] event = "update-failed" -> handleUpdateFailed(h)
                 [] event = "update-success" -> handleUpdateSuccess(h)
                 [] OTHER -> handleUpdateInfo(h)
  /\ UNCHANGED UpdateVars

\* A timer set by handleUpdateRecieved fires, 60 seconds after it was set.
TimerFires ==
  /\ cfgPc = "update"
  /\ cfgResult.timers > 0
  /\ cfgResult' = TimerCallback(cfgResult)
  /\ UNCHANGED UpdateVars

\* The function setUpdateHandler returned is called: the four listeners are
\* taken off the emitter.
Cleanup ==
  /\ cfgPc = "update"
  /\ ~cfgResult.cleaned
  /\ cfgResult' = [cfgResult EXCEPT !.registered = FALSE, !.cleaned = TRUE]
  /\ UNCHANGED UpdateVars

\* setUpdateHandler has been called.
InitUpdate ==
  /\ InitStreams
  /\ owner = [s \in Streams |-> "a1"]
  /\ InitNoMessages
  /\ InitNoTools
  /\ InitAdapter
  /\ InitNoHttp
  /\ cfgCall = [op |-> "setUpdateHandler"]
  /\ cfgResult = Handler(TRUE, FALSE, 0, 0, 0, 0, FALSE)
  /\ warnings = <<>>
  /\ cfgPc = "update"

NextUpdate ==
  \/ \E event \in UpdateEvents : Emit(event)
  \/ TimerFires
  \/ Cleanup

SpecUpdate == InitUpdate /\ [][NextUpdate]_vars

\* Neither addItem nor setUpdateInfo is called in the step.
NothingInvoked ==
  /\ cfgResult'.addItem = cfgResult.addItem
  /\ cfgResult'.setUpdateInfo = cfgResult.setUpdateInfo

(* C40: once the cleanup function has been called the handler calls        *)
(* neither addItem nor setUpdateInfo, not even for an 'update-received'    *)
(* event handled before the cleanup whose timer has yet to fire.           *)
C40_NothingInvokedAfterCleanup ==
  [][cfgResult.cleaned => NothingInvoked]_vars

\* The share of the events: an event emitted after the cleanup calls
\* nothing.
EventAfterCleanupIgnored ==
  [][cfgResult.cleaned /\ cfgResult'.emitted # cfgResult.emitted => NothingInvoked]_vars

\* The share of the timers: the cleanup leaves the timers set, and a timer
\* that fires after it calls setUpdateInfo.
TimerSurvivesCleanup ==
  [][/\ ~cfgResult.cleaned /\ cfgResult'.cleaned => cfgResult'.timers = cfgResult.timers
     /\ cfgResult.cleaned /\ cfgResult'.timers < cfgResult.timers
        => cfgResult'.setUpdateInfo = cfgResult.setUpdateInfo + 1]_vars

====
